---- MODULE Spec2Model ----
(***************************************************************************)
(* Transaction-bundle event-sourced state machine of foxy-backend: the     *)
(* event factory (the TransactionEvent transitions), the event store       *)
(* (TransactionEventManager), the broadcaster worker and the two watcher   *)
(* polls.                                                                  *)
(***************************************************************************)
EXTENDS Integers, Sequences, FiniteSets, TLC

\* ------------------------------------------------------------------ bounds
MaxEvents == 6       \* longest event log explored for the bundle
MaxFaults == 2       \* on_fail / on_error appends explored per behaviour
MaxHashes == 11      \* distinct payload hashes presented to one dedup cache
MaxPolls == 6        \* polls counted per watcher loop
MaxStr == 2          \* bytes in one attribute value of a pagination key
MaxQueued == 11      \* messages waiting in the broadcast queue at a receive
MaxRows == 2         \* rows a Status View query returns to one poll
MaxSkew == 2         \* how far a host clock may run ahead of the others

\* ------------------------------------------------------------- vocabulary
None == "none"                      \* Option::None
Legs == {"Main", "Fee"}
TerminalStatuses == {"Completed", "Failed", "Cancelled", "Errored"}
Bundle == "b1"
User == "u1"
Recipient == "u2"
MainSigned == "0xaa"                \* signed payload of the main leg
FeeSigned == "0xbb"                 \* signed payload of the fee leg

\* hex::decode(signed_tx.trim_start_matches("0x"))
HexDecode(s) ==
    CASE s = "" -> ""
      [] s = "0xaa" -> "aa"
      [] s = "0xbb" -> "bb"
      [] OTHER -> None

\* keccak256 on the payload bytes explored: distinct bytes, distinct digests
keccak256(bytes) ==
    CASE bytes = "aa" -> "h_aa"
      [] bytes = "bb" -> "h_bb"
      [] OTHER -> "h_other"

Hashes == {"h_aa", "h_bb"}

\* format!("{:#x}", tx_hash)
HashStr(h) ==
    CASE h = "h_aa" -> "0xh_aa"
      [] h = "h_bb" -> "0xh_bb"
      [] OTHER -> "0xh_other"

\* tx_hash.parse::<H256>()
ParseHash(s) ==
    CASE s = "0xh_aa" -> "h_aa"
      [] s = "0xh_bb" -> "h_bb"
      [] OTHER -> None

\* str::to_lowercase on the enum names written by Display
ToLower(s) ==
    CASE s = "Initiate" -> "initiate"
      [] s = "Sign" -> "sign"
      [] s = "Broadcast" -> "broadcast"
      [] s = "Confirm" -> "confirm"
      [] s = "Fail" -> "fail"
      [] s = "Cancel" -> "cancel"
      [] s = "Error" -> "error"
      [] s = "Initiated" -> "initiated"
      [] s = "Signed" -> "signed"
      [] s = "MainConfirmed" -> "mainconfirmed"
      [] s = "Completed" -> "completed"
      [] s = "Failed" -> "failed"
      [] s = "Cancelled" -> "cancelled"
      [] s = "Errored" -> "errored"
      [] s = "Created" -> "created"
      [] s = "Pending" -> "pending"
      [] s = "Confirmed" -> "confirmed"
      [] s = "Fee" -> "fee"
      [] s = "Main" -> "main"
      [] OTHER -> s

EventTypeFromStr(s) ==
    LET l == ToLower(s) IN
    CASE l = "initiate" -> "Initiate"
      [] l = "sign" -> "Sign"
      [] l = "broadcast" -> "Broadcast"
      [] l = "confirm" -> "Confirm"
      [] l = "fail" -> "Fail"
      [] l = "cancel" -> "Cancel"
      [] l = "error" -> "Error"
      [] OTHER -> "Err"

BundleStatusFromStr(s) ==
    LET l == ToLower(s) IN
    CASE l = "initiated" -> "Initiated"
      [] l = "signed" -> "Signed"
      [] l = "mainconfirmed" -> "MainConfirmed"
      [] l = "completed" -> "Completed"
      [] l = "failed" -> "Failed"
      [] l = "cancelled" -> "Cancelled"
      [] l = "errored" -> "Errored"
      [] OTHER -> "Err"

TransactionStatusFromStr(s) ==
    LET l == ToLower(s) IN
    CASE l = "created" -> "Created"
      [] l = "signed" -> "Signed"
      [] l = "pending" -> "Pending"
      [] l = "confirmed" -> "Confirmed"
      [] l = "failed" -> "Failed"
      [] l = "cancelled" -> "Cancelled"
      [] l = "error" -> "Error"
      [] OTHER -> "Err"

TransactionLegFromStr(s) ==
    LET l == ToLower(s) IN
    CASE l = "fee" -> "Fee"
      [] l = "main" -> "Main"
      [] OTHER -> "Err"

\* ------------------------------------------------------------- data model
NoBlock == -1                       \* block_number: None
NoReceiptStatus == -1               \* receipt_status: None
\* Transaction::new: status Created, nothing signed, no hash, no block.
NewTransaction ==
    [status |-> "Created", signed_tx |-> None, transaction_hash |-> None,
     block_number |-> NoBlock, receipt_status |-> NoReceiptStatus]

with_status(tx, s) == [tx EXCEPT !.status = s]
with_signed_tx(tx, signed) == [tx EXCEPT !.signed_tx = signed]
WithTransactionHashMutant(tx, h) == tx

with_transaction_hash(tx, h) == [tx EXCEPT !.transaction_hash = h]
with_block_number(tx, b) == [tx EXCEPT !.block_number = b]
with_receipt_status(tx, r) == [tx EXCEPT !.receipt_status = r]

\* Transaction::tx_hash: keccak256 of the hex-decoded signed payload
tx_hash(tx) ==
    IF tx.signed_tx = None THEN None
    ELSE IF HexDecode(tx.signed_tx) = None THEN None
    ELSE keccak256(HexDecode(tx.signed_tx))

\* TransactionBundle::new
NewBundle ==
    [bundle_id |-> Bundle, user_id |-> User, status |-> "Initiated",
     fee_tx |-> NewTransaction, main_tx |-> NewTransaction,
     metadata |-> [present |-> TRUE, sender |-> User, recipient |-> Recipient],
     created_at |-> 0]

\* "no event": what a caller holds before it has read or built one
NoEvent ==
    [event_id |-> 0, bundle_id |-> None, user_id |-> None, event_type |-> None,
     leg |-> None, bundle_status |-> None, transaction_status |-> None,
     bundle_snapshot |-> [NewBundle EXCEPT !.bundle_id = None]]

\* Result values of the fallible operations
Ok(ev) == [ok |-> TRUE, err |-> None, event |-> ev]
Err(e) == [ok |-> FALSE, err |-> e, event |-> NoEvent]

\* TransactionEvent::initiate (the event before it is persisted; event_id 0
\* is String::new(), a positive event_id is a store-assigned uuid)
initiate(bundle) ==
    IF bundle.status # "Initiated" THEN Err("InvalidTransition")
    ELSE Ok([event_id |-> 0, bundle_id |-> bundle.bundle_id,
             user_id |-> bundle.user_id, event_type |-> "Initiate",
             leg |-> None, bundle_status |-> "Initiated",
             transaction_status |-> None, bundle_snapshot |-> bundle])

\* TransactionEvent::on_signed up to the persist call
OnSignedMutant(last_event, fee_signed, main_signed) ==
    IF last_event.event_type # "Initiate" THEN Err("InvalidTransition")
    ELSE IF last_event.bundle_status # "Initiated" THEN Err("InvalidTransition")
    ELSE LET b == last_event.bundle_snapshot
             bundle == [b EXCEPT
                 !.fee_tx = with_status(with_signed_tx(b.fee_tx, fee_signed), "Signed"),
                 !.main_tx = with_status(with_signed_tx(b.main_tx, main_signed), "Signed")]
         IN Ok([event_id |-> 0, bundle_id |-> bundle.bundle_id,
                user_id |-> last_event.user_id, event_type |-> "Sign",
                leg |-> None, bundle_status |-> "Signed",
                transaction_status |-> None, bundle_snapshot |-> bundle])

on_signed(last_event, fee_signed, main_signed) ==
    IF last_event.event_type # "Initiate" THEN Err("InvalidTransition")
    ELSE IF last_event.bundle_status # "Initiated" THEN Err("InvalidTransition")
    ELSE LET b == last_event.bundle_snapshot
             bundle == [b EXCEPT
                 !.fee_tx = with_status(with_signed_tx(b.fee_tx, fee_signed), "Signed"),
                 !.main_tx = with_status(with_signed_tx(b.main_tx, main_signed), "Signed"),
                 !.status = "Signed"]
         IN Ok([event_id |-> 0, bundle_id |-> bundle.bundle_id,
                user_id |-> last_event.user_id, event_type |-> "Sign",
                leg |-> None, bundle_status |-> "Signed",
                transaction_status |-> None, bundle_snapshot |-> bundle])

\* the match of on_broadcast on (last_event.event_type, bundle.status)
BroadcastLegMutant(event_type, status) ==
    CASE event_type = "Sign" /\ status = "Signed" -> "Fee"
      [] event_type = "Confirm" /\ status = "MainConfirmed" -> "Fee"
      [] OTHER -> None

BroadcastLeg(event_type, status) ==
    CASE event_type = "Sign" /\ status = "Signed" -> "Main"
      [] event_type = "Confirm" /\ status = "MainConfirmed" -> "Fee"
      [] OTHER -> None

\* TransactionEvent::on_broadcast up to the persist call
on_broadcast(last_event, hash) ==
    IF last_event.event_type # "Confirm" /\ last_event.event_type # "Sign"
    THEN Err("InvalidTransition")
    ELSE IF last_event.bundle_status # "Signed" /\ last_event.bundle_status # "MainConfirmed"
    THEN Err("InvalidTransition")
    ELSE LET b == last_event.bundle_snapshot
             leg == BroadcastLeg(last_event.event_type, b.status)
             bundle ==
                 IF leg = "Main"
                 THEN [b EXCEPT !.main_tx =
                         with_status(with_transaction_hash(b.main_tx, HashStr(hash)), "Pending")]
                 ELSE [b EXCEPT !.fee_tx =
                         with_status(with_transaction_hash(b.fee_tx, HashStr(hash)), "Pending")]
         IN IF leg = None THEN Err("InvalidTransition")
            ELSE Ok([event_id |-> 0, bundle_id |-> bundle.bundle_id,
                     user_id |-> last_event.user_id, event_type |-> "Broadcast",
                     leg |-> leg, bundle_status |-> bundle.status,
                     transaction_status |-> None, bundle_snapshot |-> bundle])

\* TransactionEvent::on_fail up to the persist call
OnFailMutant(last_event, leg) ==
    LET b == last_event.bundle_snapshot
        bundle ==
            IF leg = "Fee"
            THEN [b EXCEPT !.fee_tx = with_status(b.fee_tx, "Failed")]
            ELSE [b EXCEPT !.main_tx = with_status(b.main_tx, "Failed")]
    IN Ok([event_id |-> 0, bundle_id |-> bundle.bundle_id,
           user_id |-> last_event.user_id, event_type |-> "Fail",
           leg |-> leg, bundle_status |-> bundle.status,
           transaction_status |-> "Failed", bundle_snapshot |-> bundle])

on_fail(last_event, leg) ==
    LET b == last_event.bundle_snapshot
        bundle ==
            IF leg = "Fee"
            THEN [b EXCEPT !.fee_tx = with_status(b.fee_tx, "Failed"), !.status = "Failed"]
            ELSE [b EXCEPT !.main_tx = with_status(b.main_tx, "Failed"), !.status = "Failed"]
    IN Ok([event_id |-> 0, bundle_id |-> bundle.bundle_id,
           user_id |-> last_event.user_id, event_type |-> "Fail",
           leg |-> leg, bundle_status |-> "Failed",
           transaction_status |-> "Failed", bundle_snapshot |-> bundle])

\* TransactionEvent::on_error up to the persist call
OnErrorMutant(last_event, leg) ==
    LET b == last_event.bundle_snapshot
        bundle == [b EXCEPT !.fee_tx = with_status(b.fee_tx, "Error"),
                            !.main_tx = with_status(b.main_tx, "Error"),
                            !.status = "Errored"]
    IN Ok([event_id |-> 0, bundle_id |-> bundle.bundle_id,
           user_id |-> last_event.user_id, event_type |-> "Error",
           leg |-> leg, bundle_status |-> "Errored",
           transaction_status |-> "Error", bundle_snapshot |-> bundle])

on_error(last_event, leg) ==
    LET b == last_event.bundle_snapshot
        bundle ==
            IF leg = "Fee"
            THEN [b EXCEPT !.fee_tx = with_status(b.fee_tx, "Error"), !.status = "Errored"]
            ELSE [b EXCEPT !.main_tx = with_status(b.main_tx, "Error"), !.status = "Errored"]
    IN Ok([event_id |-> 0, bundle_id |-> bundle.bundle_id,
           user_id |-> last_event.user_id, event_type |-> "Error",
           leg |-> leg, bundle_status |-> "Errored",
           transaction_status |-> "Error", bundle_snapshot |-> bundle])

\* TransactionEvent::on_confirmed up to the persist call.  The leg is the
\* one the last Broadcast event concerns; a main confirmation moves the
\* bundle to MainConfirmed, a fee confirmation to Completed.
on_confirmed(last_event, updated_tx) ==
    IF last_event.event_type # "Broadcast" THEN Err("InvalidTransition")
    ELSE LET b == last_event.bundle_snapshot IN
         IF last_event.leg = "Main" /\ b.status = "Signed"
         THEN LET bundle == [b EXCEPT !.main_tx = updated_tx, !.status = "MainConfirmed"]
              IN Ok([event_id |-> 0, bundle_id |-> bundle.bundle_id,
                     user_id |-> last_event.user_id, event_type |-> "Confirm",
                     leg |-> "Main", bundle_status |-> "MainConfirmed",
                     transaction_status |-> "Confirmed", bundle_snapshot |-> bundle])
         ELSE IF last_event.leg = "Fee" /\ b.status = "MainConfirmed"
         THEN LET bundle == [b EXCEPT !.fee_tx = updated_tx, !.status = "Completed"]
              IN Ok([event_id |-> 0, bundle_id |-> bundle.bundle_id,
                     user_id |-> last_event.user_id, event_type |-> "Confirm",
                     leg |-> "Fee", bundle_status |-> "Completed",
                     transaction_status |-> "Confirmed", bundle_snapshot |-> bundle])
         ELSE Err("InvalidTransition")

\* ------------------------------------------------------------------ state
VARIABLES
    store,        \* event table: set of items, at most one per (PK, SK)
    nextId,       \* number of event ids (uuids) generated so far
    now,          \* per clock: its last Utc::now() reading
    clockOf,      \* the clock each caller, worker and poll instance reads
    statusView,   \* Status View table: one row per (bundle, leg)
    historyView,  \* History View table: set of rows, at most one per (PK, SK)
    dynamoFault,  \* the DynamoDB call of the next persist that fails ("none": none)
    log,          \* history: the successful persists, in the order they happened
    held,         \* per API caller: the event it holds (last read or returned)
    heldFrom,     \* history: sort key of the stored item held[c] stands for
    result,       \* outcome of the last state-machine / store call of a caller
    queue,        \* broadcast queue: the messages not yet deleted
    pushed,       \* history: the bundle stages a message was enqueued for
    procOf,       \* the broadcaster process each worker runs in
    wst,          \* per broadcaster worker: position and locals
    cache,        \* per broadcaster process: recent_tx_hashes
    lock,         \* per broadcaster process: the worker holding the cache's write lock
    chainTxs,     \* hashes of the transactions the chain has accepted
    receipts,     \* per hash: execution status of its receipt, -1 while unmined
    sent,         \* history: the send_raw_transaction calls made
    pst,          \* per watcher poll instance: position and locals
    scan,         \* one watcher poll over the rows its query returned
    wloop,        \* per loop task of the watcher process: position, polls done
    shutdown,     \* the watcher's main task: running, signalled, joined
    tok,          \* one page-token computation: the key map, the token, the decoded map
    batch         \* one invocation of the broadcaster's handler over a received batch

storeVars == <<store, nextId, now, statusView, historyView, dynamoFault, log>>
smVars == <<held, heldFrom, result>>
auxVars == <<tok, batch>>
runVars == <<scan, wloop, shutdown, auxVars>>
sysVars == <<clockOf, queue, pushed, procOf, wst, cache, lock, chainTxs, receipts, sent, pst,
             runVars>>
coreVars == <<storeVars, smVars, clockOf, queue, pushed, procOf, wst, cache, lock, chainTxs,
              receipts, sent, pst>>
vars == <<store, nextId, now, statusView, historyView, dynamoFault, log, held, heldFrom, result, clockOf,
          queue, pushed, procOf, wst, cache, lock, chainTxs, receipts, sent, pst, scan,
          wloop, shutdown, tok, batch>>

Callers == {"c1", "c2"}

\* ------------------------------------------------------------ event store
\* serde_json::to_string / from_str of the bundle snapshot
ToJson(bundle) == <<"json", bundle>>
FromJson(json) == json[2]

\* TransactionEventManager::to_dynamo_item; id is the fresh uuid, ts the
\* Utc::now() reading that becomes the sort key
to_dynamo_item(event, id, ts) ==
    [PK |-> event.bundle_id, SK |-> ts, EventID |-> id,
     UserID |-> event.user_id, EventType |-> event.event_type,
     BundleSnapshot |-> ToJson(event.bundle_snapshot),
     Leg |-> event.leg, TransactionStatus |-> event.transaction_status,
     BundleStatus |-> event.bundle_status]

\* DynamoDB put_item: an item with the same (PK, SK) is replaced
put_item(table, item) ==
    {i \in table : ~(i.PK = item.PK /\ i.SK = item.SK)} \cup {item}

ItemsOf(table, bundle_id) == {i \in table : i.PK = bundle_id}

\* the query of get_latest_event: descending by SK, limit 1
LatestItem(table, bundle_id) ==
    CHOOSE i \in ItemsOf(table, bundle_id) :
        \A j \in ItemsOf(table, bundle_id) : j.SK <= i.SK

\* the event get_latest_event builds from the item it read
EventOfItem(item, bundle_id) ==
    [event_id |-> 0,
     bundle_id |-> bundle_id,
     user_id |-> item.UserID,
     event_type |-> EventTypeFromStr(item.EventType),
     leg |-> IF item.Leg = None THEN None ELSE TransactionLegFromStr(item.Leg),
     bundle_status |-> IF item.BundleStatus = None THEN None
                       ELSE BundleStatusFromStr(item.BundleStatus),
     transaction_status |-> IF item.TransactionStatus = None THEN None
                            ELSE TransactionStatusFromStr(item.TransactionStatus),
     bundle_snapshot |-> FromJson(item.BundleSnapshot)]

\* TransactionEventManager::get_latest_event
get_latest_event(table, bundle_id) ==
    IF ItemsOf(table, bundle_id) = {} THEN Err("NotFound")
    ELSE Ok(EventOfItem(LatestItem(table, bundle_id), bundle_id))

\* sort key of the item get_latest_event reads (0: no item)
LatestSK(table, bundle_id) ==
    IF ItemsOf(table, bundle_id) = {} THEN 0 ELSE LatestItem(table, bundle_id).SK

\* the double-persist guard at the head of persist
AlreadyPersistedMutant(event) == FALSE

AlreadyPersisted(event) == event.event_id # 0

\* Status View row of one leg of a snapshot
ViewRow(bundle, leg) ==
    LET tx == IF leg = "Main" THEN bundle.main_tx ELSE bundle.fee_tx
    IN [bundle_id |-> bundle.bundle_id, leg |-> leg, status |-> tx.status,
        tx_hash |-> tx.transaction_hash, block_number |-> tx.block_number]

\* TransactionStatusViewManager::project as persist calls it: reads the
\* latest event of the bundle and rewrites the rows of the legs it concerns
project(view, table, bundle_id) ==
    CHOOSE rows \in
        {[l \in Legs |-> IF ev.leg = None \/ ev.leg = l
                         THEN ViewRow(ev.bundle_snapshot, l) ELSE view[l]]
            : ev \in {get_latest_event(table, bundle_id).event}} : TRUE

\* History record of one successful persist: the item written, the
\* operation that built the event and the last event it was built from.
LogEntry(item, op, last_event, from_sk) ==
    [item |-> item, op |-> op, from_sk |-> from_sk,
     from_type |-> last_event.event_type, from_status |-> last_event.bundle_status]

\* the tables (and their history) as one value, so that calls compose
Db == [store |-> store, nextId |-> nextId, now |-> now,
       statusView |-> statusView, historyView |-> historyView,
       dynamoFault |-> dynamoFault, log |-> log]

Commit(db) ==
    /\ store' = db.store
    /\ nextId' = db.nextId
    /\ now' = db.now
    /\ statusView' = db.statusView
    /\ historyView' = db.historyView
    /\ dynamoFault' = db.dynamoFault
    /\ log' = db.log

\* what produced an event: the operation, the last event it was given, the
\* sort key of the stored item that last event stands for, and the clock
\* of the process that runs the operation
Origin(op, last_event, from_sk, clock) ==
    [op |-> op, last |-> last_event, from_sk |-> from_sk, clock |-> clock]

\* TransactionHistoryItem::from_event_and_user: the row of one party, none
\* for a user who is neither sender nor recipient or without metadata
from_event_and_user(event, current_user_id, ts) ==
    LET bundle == event.bundle_snapshot
        metadata == bundle.metadata
    IN IF ~metadata.present THEN None
       ELSE IF metadata.sender = None \/ metadata.recipient = None THEN None
       ELSE IF current_user_id # metadata.sender /\ current_user_id # metadata.recipient
       THEN None
       ELSE [bundle_id |-> bundle.bundle_id,
             direction |-> IF metadata.sender = current_user_id
                           THEN "outgoing" ELSE "incoming",
             counterparty |-> IF metadata.sender = current_user_id
                              THEN metadata.recipient ELSE metadata.sender,
             status |-> CASE event.bundle_status = "Initiated" -> "Created"
                          [] event.bundle_status = "Signed" -> "Signed"
                          [] event.bundle_status \in {"MainConfirmed", "Completed"}
                                -> "Confirmed"
                          [] event.bundle_status = "Failed" -> "Failed"
                          [] event.bundle_status = "Cancelled" -> "Cancelled"
                          [] event.bundle_status = "Errored" -> "Error"
                          [] OTHER -> "Created",
             tx_hash |-> bundle.main_tx.transaction_hash,
             timestamp |-> ts]

\* the History View item of a row: keyed by the row's counterparty and by
\* (bundle, timestamp)
HistoryItem(row) ==
    [PK |-> row.counterparty, SK |-> <<row.bundle_id, row.timestamp>>, row |-> row]

\* TransactionHistoryViewManager::project_from_event: one row for the
\* sender and one for the recipient; ts is the event's created_at. Without
\* metadata, sender or recipient it returns an error before any write.
ProjectFromEventMutant(view, event, ts) ==
    view \cup {HistoryItem([bundle_id |-> event.bundle_id, direction |-> "outgoing",
                            counterparty |-> event.user_id, status |-> "Created",
                            tx_hash |-> None, timestamp |-> ts])}

project_from_event(view, event, ts) ==
    LET metadata == event.bundle_snapshot.metadata
        rows == IF ~metadata.present THEN {}
                ELSE IF metadata.sender = None \/ metadata.recipient = None THEN {}
                ELSE {from_event_and_user(event, u, ts)
                        : u \in {metadata.sender, metadata.recipient}}
        items == {HistoryItem(row) : row \in rows}
    IN {i \in view : \A j \in items : ~(i.PK = j.PK /\ i.SK = j.SK)} \cup items

\* TransactionHistoryViewManager::query_by_user: the rows of the items whose
\* partition key is the user's (no limit, no start key)
query_by_user(view, user_id) == {i.row : i \in {j \in view : j.PK = user_id}}

\* TransactionHistoryViewManager::get_by_bundle_id_for_user: the query on
\* PK = user and begins_with(SK, bundle) reads in ascending order of the sort
\* key (the default) with limit 1 and returns the first item, if any.  The
\* Option is the set of at most one row.
get_by_bundle_id_for_user(view, user_id, bundle_id) ==
    LET items == {i \in view : i.PK = user_id /\ i.SK[1] = bundle_id}
    IN {i.row : i \in {j \in items : \A k \in items : j.SK[2] <= k.SK[2]}}

\* the result persist returns once the event is written, whatever the two
\* projections did
PersistResultMutant(item, status_ok, history_ok) ==
    IF status_ok /\ history_ok
    THEN [ok |-> TRUE, err |-> None, id |-> item.EventID, sk |-> item.SK]
    ELSE [ok |-> FALSE, err |-> "DynamoDb", id |-> 0, sk |-> 0]

persist_result(item, status_ok, history_ok) ==
    [ok |-> TRUE, err |-> None, id |-> item.EventID, sk |-> item.SK]

\* the put and the projections of persist for the item built from the
\* event; a failed projection leaves its view as it was
put_and_project(db, event, item, origin) ==
    CHOOSE out \in
        {[db |-> [store |-> table, nextId |-> item.EventID,
                  now |-> [db.now EXCEPT ![origin.clock] = item.SK],
                  statusView |-> IF db.dynamoFault = "status" THEN db.statusView
                                 ELSE project(db.statusView, table, item.PK),
                  historyView |-> IF db.dynamoFault = "history" THEN db.historyView
                                  ELSE project_from_event(db.historyView, event, item.SK),
                  dynamoFault |-> "none",
                  log |-> Append(db.log,
                                 LogEntry(item, origin.op, origin.last, origin.from_sk))]]
         @@ persist_result(item, db.dynamoFault # "status", db.dynamoFault # "history")
            : table \in {put_item(db.store, item)}} : TRUE

\* TransactionEventManager::persist: the guard, then the item is built
\* (fresh uuid, Utc::now() of the writing process) and put (a failed put
\* ends persist with the error), then the Status View and the History View
\* are projected; returns the assigned event id.
persist(db, event, origin) ==
    IF AlreadyPersisted(event)
    THEN [db |-> db, ok |-> FALSE, err |-> "AlreadyPersisted", id |-> 0, sk |-> 0]
    ELSE IF db.dynamoFault = "put"
    THEN [db |-> [db EXCEPT !.dynamoFault = "none"],
          ok |-> FALSE, err |-> "DynamoDb", id |-> 0, sk |-> 0]
    ELSE CHOOSE out \in
            {put_and_project(db, event, item, origin)
                : item \in {to_dynamo_item(event, db.nextId + 1,
                                           db.now[origin.clock] + 1)}} : TRUE

\* the persist call at the end of a transition and the event it returns
persist_and_assign(db, event, origin) ==
    CHOOSE out \in
        {IF p.ok
         THEN [db |-> p.db, ok |-> TRUE, err |-> None,
               event |-> [event EXCEPT !.event_id = p.id], sk |-> p.sk]
         ELSE [db |-> p.db, ok |-> FALSE, err |-> p.err, event |-> NoEvent, sk |-> 0]
            : p \in {persist(db, event, origin)}} : TRUE

\* The tail shared by on_signed, on_broadcast, on_fail, on_error and
\* on_confirmed: a rejected transition writes nothing; a built event is
\* persisted and returned with the assigned event_id.
Transit(db, r, origin) ==
    IF ~r.ok THEN [db |-> db, ok |-> FALSE, err |-> r.err, event |-> NoEvent, sk |-> 0]
    ELSE persist_and_assign(db, r.event, origin)

Faults == Cardinality({i \in 1..Len(log) : log[i].op \in {"on_fail", "on_error"}})
CanAppend == Len(log) < MaxEvents
CanFault == CanAppend /\ Faults < MaxFaults

Outcome(op, c, last_event, err, appended, id) ==
    [op |-> op, caller |-> c, err |-> err, appended |-> appended, id |-> id,
     from_type |-> last_event.event_type, from_status |-> last_event.bundle_status,
     from_id |-> last_event.event_id]

\* ------------------------------------------------- API callers (SpecSM)
\* A state-machine call of caller c on the event it holds; on success the
\* caller goes on with the returned event.
SmCall(c, op, r) ==
    \E r0 \in {r} :
    \E t \in {Transit(Db, r0, Origin(op, held[c], heldFrom[c], clockOf[c]))} :
    /\ Commit(t.db)
    /\ held' = [held EXCEPT ![c] = IF t.ok THEN t.event ELSE @]
    /\ heldFrom' = [heldFrom EXCEPT ![c] = IF t.ok THEN t.sk ELSE @]
    /\ result' = Outcome(op, c, held[c], t.err, t.ok, t.event.event_id)
    /\ UNCHANGED sysVars

\* persist_initial_event for the new bundle (the initiation endpoint)
persist_initial_event_with(c, bundle) ==
    /\ ItemsOf(store, Bundle) = {}
    /\ \E r \in {initiate(bundle)} :
       \E t \in {Transit(Db, r, Origin("initiate", NoEvent, 0, clockOf[c]))} :
       /\ Commit(t.db)
       /\ result' = Outcome("initiate", c, NoEvent, t.err, t.ok, 0)
    /\ UNCHANGED <<held, heldFrom, sysVars>>

persist_initial_event(c) == persist_initial_event_with(c, NewBundle)

\* a caller loads the latest event of the bundle
CallGetLatestEvent(c) ==
    /\ \E r \in {get_latest_event(store, Bundle)} :
       /\ held' = [held EXCEPT ![c] = IF r.ok THEN r.event ELSE @]
       /\ heldFrom' = [heldFrom EXCEPT ![c] = IF r.ok THEN LatestSK(store, Bundle) ELSE @]
       /\ result' = Outcome("get_latest_event", c, NoEvent, r.err, FALSE, 0)
    /\ UNCHANGED <<storeVars, sysVars>>

\* on_signed with the payloads the client sent (&str: present, maybe empty)
CallOnSignedWith(c, fee_signed, main_signed) ==
    /\ held[c] # NoEvent /\ CanAppend
    /\ SmCall(c, "on_signed", on_signed(held[c], fee_signed, main_signed))

CallOnSigned(c) == CallOnSignedWith(c, FeeSigned, MainSigned)

CallOnBroadcast(c, h) ==
    /\ held[c] # NoEvent /\ CanAppend
    /\ SmCall(c, "on_broadcast", on_broadcast(held[c], h))

CallOnConfirmed(c) ==
    /\ held[c] # NoEvent /\ CanAppend
    /\ held[c].leg # None
    /\ LET b == held[c].bundle_snapshot
           tx == IF held[c].leg = "Main" THEN b.main_tx ELSE b.fee_tx
       IN SmCall(c, "on_confirmed",
                 on_confirmed(held[c], with_block_number(with_status(tx, "Confirmed"), 42)))

CallOnFail(c, leg) ==
    /\ held[c] # NoEvent /\ CanFault
    /\ SmCall(c, "on_fail", on_fail(held[c], leg))

CallOnError(c, leg) ==
    /\ held[c] # NoEvent /\ CanFault
    /\ SmCall(c, "on_error", on_error(held[c], leg))

\* a caller hands the event it holds to persist
CallPersist(c) ==
    /\ held[c] # NoEvent /\ CanAppend
    /\ \E p \in {persist(Db, held[c],
                            Origin("persist", held[c], heldFrom[c], clockOf[c]))} :
       /\ Commit(p.db)
       /\ result' = Outcome("persist", c, held[c], p.err, p.ok, p.id)
    /\ UNCHANGED <<held, heldFrom, sysVars>>


InitStore ==
    /\ store = {}
    /\ nextId = 0
    /\ now = [k \in {"utc", "host1", "host2"} |-> 0]
    /\ statusView = [l \in Legs |-> [bundle_id |-> None, leg |-> None, status |-> None,
                                    tx_hash |-> None, block_number |-> NoBlock]]
    /\ historyView = {}
    /\ dynamoFault = "none"
    /\ log = <<>>

InitCallers ==
    /\ held = [c \in Callers |-> NoEvent]
    /\ heldFrom = [c \in Callers |-> 0]
    /\ result = Outcome("none", None, NoEvent, None, FALSE, 0)

\* ------------------------------------------------------------ broadcaster
Workers == {"w1", "w2"}
Procs == {"p1", "p2"}
CacheCapacity == 10

\* BroadcastMessage, with the queue's message id
BroadcastMessage(id) == [bundle_id |-> Bundle, user_id |-> User, message_id |-> id]
Messages == {BroadcastMessage(id) : id \in {"Signed", "MainConfirmed"}}

\* push_to_broadcast_queue: the body json!({"transaction_id": .., "user_id": ..})
push_to_broadcast_queue(transaction_id, user_id) ==
    [transaction_id |-> transaction_id, user_id |-> user_id]

\* serde_json::from_str::<BroadcastMessage>: both fields of the struct are
\* required, other keys of the body are ignored
from_str(body) ==
    IF "bundle_id" \in DOMAIN body /\ "user_id" \in DOMAIN body
    THEN [ok |-> TRUE, bundle_id |-> body.bundle_id, user_id |-> body.user_id]
    ELSE [ok |-> FALSE, bundle_id |-> None, user_id |-> None]

\* a worker without a task; ret and metric are what its last task returned
\* and the metric that task emitted, lookup the answer of get_transaction
\* that led a failed task to the failure handling
IdleWorker ==
    [pc |-> "idle", msg |-> None, last |-> NoEvent, from_sk |-> 0,
     leg |-> None, hash |-> None, lookup |-> None, ret |-> None, metric |-> None]

\* the end of a task: Ok(()) or Err(())
Done(ret, metric) == [IdleWorker EXCEPT !.ret = ret, !.metric = metric]

\* the leg selection of the worker on (event_type, bundle_snapshot.status)
SelectLegMutant(last_event) ==
    LET b == last_event.bundle_snapshot IN
    CASE last_event.event_type = "Sign" /\ b.status = "Signed" ->
             [leg |-> "Fee", signing_data |-> b.fee_tx.signed_tx]
      [] last_event.event_type = "Confirm" /\ b.status = "MainConfirmed" ->
             [leg |-> "Fee", signing_data |-> b.fee_tx.signed_tx]
      [] OTHER -> [leg |-> None, signing_data |-> None]

SelectLeg(last_event) ==
    LET b == last_event.bundle_snapshot IN
    CASE last_event.event_type = "Sign" /\ b.status = "Signed" ->
             [leg |-> "Main", signing_data |-> b.main_tx.signed_tx]
      [] last_event.event_type = "Confirm" /\ b.status = "MainConfirmed" ->
             [leg |-> "Fee", signing_data |-> b.fee_tx.signed_tx]
      [] OTHER -> [leg |-> None, signing_data |-> None]

\* hashes.contains(&tx_hash)
ContainsMutant(seq, x) == FALSE

Contains(seq, x) == \E i \in 1..Len(seq) : seq[i] = x

\* if hashes.len() > 10 { hashes.pop_front(); }
EvictMutant(hashes) == hashes

Evict(hashes) ==
    IF Len(hashes) > CacheCapacity THEN Tail(hashes) ELSE hashes

\* the reservation: hashes.push_back(tx_hash), then the eviction
ReserveMutant(hashes, h) == hashes

Reserve(hashes, h) == Evict(Append(hashes, h))

MainConfirmedInLog ==
    \E i \in 1..Len(log) :
        /\ log[i].item.EventType = "Confirm"
        /\ log[i].item.BundleStatus = "MainConfirmed"
        /\ FromJson(log[i].item.BundleSnapshot).main_tx.status = "Confirmed"

\* The worker task up to the hash: it loads the latest event of the
\* message's bundle, selects the leg, decodes the payload and hashes it.
\* Any failure ends the task with Err and leaves the message in the queue.
WorkerLoad(w, m) ==
    /\ wst[w].pc = "idle"
    /\ m \in queue
    /\ \E r \in {get_latest_event(store, m.bundle_id)} :
       LET sel == SelectLeg(r.event)
           bytes == HexDecode(sel.signing_data)
       IN IF r.ok /\ sel.leg # None /\ sel.signing_data # None /\ bytes # None
          THEN wst' = [wst EXCEPT ![w] =
                         [pc |-> "dedup", msg |-> m, last |-> r.event,
                          from_sk |-> LatestSK(store, m.bundle_id), leg |-> sel.leg,
                          hash |-> keccak256(bytes), lookup |-> None,
                          ret |-> None, metric |-> None]]
          ELSE wst' = [wst EXCEPT ![w] = Done("Err", None)]
    /\ UNCHANGED <<storeVars, smVars, clockOf, runVars, queue, pushed, procOf, cache, lock, chainTxs,
                   receipts, sent, pst>>

\* The dedup guard: the task takes the write lock of its process's cache.
\* With an unknown hash it reserves the hash and leaves the block, which
\* releases the lock before the network call.  With a known hash it goes on
\* to emit the DuplicateTxSkipped metric, the guard still alive.
WorkerDedup(w) ==
    /\ wst[w].pc = "dedup"
    /\ lock[procOf[w]] = None
    /\ IF Contains(cache[procOf[w]], wst[w].hash)
       THEN /\ wst' = [wst EXCEPT ![w].pc = "emit"]
            /\ lock' = [lock EXCEPT ![procOf[w]] = w]
            /\ cache' = cache
       ELSE /\ cache' = [cache EXCEPT ![procOf[w]] = Reserve(@, wst[w].hash)]
            /\ wst' = [wst EXCEPT ![w].pc = "send"]
            /\ lock' = lock
    /\ UNCHANGED <<storeVars, smVars, clockOf, runVars, queue, pushed, procOf, chainTxs, receipts,
                   sent, pst>>

\* The duplicate path: tracker.emit puts the metric to CloudWatch (a failure
\* is only logged), then the task returns Ok(()), which drops the guard.
\* The message stays in the queue.
WorkerEmit(w) ==
    /\ wst[w].pc = "emit"
    /\ wst' = [wst EXCEPT ![w] = Done("Ok", "DuplicateTxSkipped")]
    /\ lock' = [lock EXCEPT ![procOf[w]] = None]
    /\ UNCHANGED <<storeVars, smVars, clockOf, runVars, queue, pushed, procOf, cache, chainTxs,
                   receipts, sent, pst>>

\* provider.send_raw_transaction: the chain accepts a transaction it does
\* not know yet ("accepted"), the call fails ("error"), or the transaction
\* is accepted but the call still reports a failure ("lost").
WorkerSend(w, outcome) ==
    /\ wst[w].pc = "send"
    /\ sent' = sent \cup {[leg |-> wst[w].leg, hash |-> wst[w].hash,
                           main_confirmed |-> MainConfirmedInLog,
                           proc |-> procOf[w],
                           nth |-> 1 + Cardinality({x \in sent : /\ x.hash = wst[w].hash
                                                                 /\ x.proc = procOf[w]})]}
    /\ CASE outcome = "accepted" ->
              /\ wst[w].hash \notin chainTxs
              /\ chainTxs' = chainTxs \cup {wst[w].hash}
              /\ wst' = [wst EXCEPT ![w].pc = "record"]
         [] outcome = "lost" ->
              /\ wst[w].hash \notin chainTxs
              /\ chainTxs' = chainTxs \cup {wst[w].hash}
              /\ wst' = [wst EXCEPT ![w].pc = "lookup"]
         [] outcome = "error" ->
              /\ chainTxs' = chainTxs
              /\ wst' = [wst EXCEPT ![w].pc = "lookup"]
    /\ UNCHANGED <<storeVars, smVars, clockOf, runVars, queue, pushed, procOf, cache, lock,
                   receipts, pst>>

\* After a successful submission: on_broadcast records the event (a failure
\* is only logged), the message is deleted and the task ends with Ok.
WorkerRecord(w) ==
    /\ wst[w].pc = "record"
    /\ CanAppend
    /\ \E r \in {on_broadcast(wst[w].last, wst[w].hash)} :
       \E t \in {Transit(Db, r, Origin("on_broadcast", wst[w].last, wst[w].from_sk,
                                       clockOf[w]))} :
          Commit(t.db)
    /\ queue' = queue \ {wst[w].msg}
    /\ wst' = [wst EXCEPT ![w] = Done("Ok", None)]
    /\ UNCHANGED <<smVars, clockOf, runVars, pushed, procOf, cache, lock, chainTxs,
                   receipts, sent, pst>>

\* After a failed submission: provider.get_transaction by the hash.  A
\* transaction found on-chain ends the task with Ok after deleting the
\* message; not found, or a failed lookup, goes on to the failure handling.
WorkerLookup(w, outcome) ==
    /\ wst[w].pc = "lookup"
    /\ CASE outcome = "some" ->
              /\ wst[w].hash \in chainTxs
              /\ queue' = queue \ {wst[w].msg}
              /\ wst' = [wst EXCEPT ![w] = Done("Ok", None)]
         [] outcome = "none" ->
              /\ wst[w].hash \notin chainTxs
              /\ queue' = queue
              /\ wst' = [wst EXCEPT ![w].pc = "fail", ![w].lookup = "none"]
         [] outcome = "err" ->
              /\ queue' = queue
              /\ wst' = [wst EXCEPT ![w].pc = "fail", ![w].lookup = "err"]
    /\ UNCHANGED <<storeVars, smVars, clockOf, runVars, pushed, procOf, cache, lock, chainTxs,
                   receipts, sent, pst>>

\* Failure handling: on_fail for the leg (its result is dropped), the
\* message is deleted, the FatalDependencyFailure metric is emitted and the
\* task ends with Err.
WorkerFail(w) ==
    /\ wst[w].pc = "fail"
    /\ CanFault
    /\ \E r \in {on_fail(wst[w].last, wst[w].leg)} :
       \E t \in {Transit(Db, r, Origin("on_fail", wst[w].last, wst[w].from_sk,
                                       clockOf[w]))} :
          Commit(t.db)
    /\ queue' = queue \ {wst[w].msg}
    /\ wst' = [wst EXCEPT ![w] = [Done("Err", "FatalDependencyFailure")
                                     EXCEPT !.lookup = wst[w].lookup]]
    /\ UNCHANGED <<smVars, clockOf, runVars, pushed, procOf, cache, lock, chainTxs,
                   receipts, sent, pst>>

\* The handler's for loop on a received message whose body does not parse:
\* the error is logged and the loop continues; no task is spawned and the
\* message is not deleted (it was received with visibility_timeout 0).
WorkerSkip(w, m) ==
    /\ wst[w].pc = "idle"
    /\ m \in queue
    /\ ~from_str(m).ok
    /\ wst' = [wst EXCEPT ![w] = Done("Skipped", None)]
    /\ UNCHANGED <<storeVars, smVars, clockOf, runVars, queue, pushed, procOf, cache, lock, chainTxs,
                   receipts, sent, pst>>

\* The commit endpoint after it has stored the signing: it pushes the
\* message for the transaction to the broadcast queue.
PushToBroadcastQueue ==
    /\ "commit" \notin pushed
    /\ \E r \in {get_latest_event(store, Bundle)} :
          r.ok /\ r.event.event_type = "Sign"
    /\ pushed' = pushed \cup {"commit"}
    /\ queue' = queue \cup {push_to_broadcast_queue(Bundle, User)}
    /\ UNCHANGED <<storeVars, smVars, clockOf, runVars, procOf, wst, cache, lock, chainTxs,
                   receipts, sent, pst>>

\* The aggregation of a batch: rets gives what each task of the batch
\* returned ("Ok", "Err", or "Panic" for a join error).  Any failure makes
\* the handler return an error, else it returns the number of successes.
BatchResult(rets) ==
    LET success_count == Cardinality({w \in DOMAIN rets : rets[w] = "Ok"})
        failure_detected == \E w \in DOMAIN rets : rets[w] # "Ok"
    IN IF failure_detected
       THEN [ok |-> FALSE, err |-> "Broadcast failure detected", count |-> 0]
       ELSE [ok |-> TRUE, err |-> None, count |-> success_count]

\* ------------------------------------------------- one handler invocation
\* function_handler_with_cache over the batch it received.  The tasks of a
\* batch are counted by where they are: running, finished and not yet
\* joined (done), joined; by outcome "Ok" (Ok(Ok(()))), "Err" (Ok(Err(())))
\* and "Panic" (a join error).
max_number_of_messages == 10
TaskOutcomes == {"Ok", "Err", "Panic"}
NoTasks == [o \in TaskOutcomes |-> 0]

IdleBatch ==
    [pc |-> "idle", received |-> 0, skipped |-> 0, running |-> 0, done |-> NoTasks,
     joined |-> NoTasks, success_count |-> 0, failure_detected |-> FALSE,
     ret |-> [ok |-> FALSE, err |-> None, count |-> 0]]

\* one arm of the match on a joined task's result
AggregateMutant(b, outcome) ==
    IF outcome = "Ok" THEN [b EXCEPT !.success_count = @ + 1]
    ELSE IF outcome = "Err" THEN [b EXCEPT !.failure_detected = TRUE]
    ELSE b

Aggregate(b, outcome) ==
    IF outcome = "Ok" THEN [b EXCEPT !.success_count = @ + 1]
    ELSE [b EXCEPT !.failure_detected = TRUE]

\* receive_message fails: the handler returns the error, nothing is spawned
HandlerReceiveFails ==
    /\ batch.pc \in {"idle", "returned"}
    /\ batch' = [IdleBatch EXCEPT !.pc = "returned",
                                  !.ret = [ok |-> FALSE, err |-> "receive", count |-> 0]]
    /\ UNCHANGED <<coreVars, scan, wloop, shutdown, tok>>

\* receive_message returns up to max_number_of_messages of the queued
\* messages; the for loop skips the bad ones that do not parse and spawns
\* a task for each of the others
HandlerReceive(queued, bad) ==
    /\ batch.pc \in {"idle", "returned"}
    /\ \E n \in 0..(IF queued < max_number_of_messages THEN queued
                      ELSE max_number_of_messages) :
          /\ bad <= n
          /\ batch' = [IdleBatch EXCEPT !.pc = "joining", !.received = n,
                                        !.skipped = bad, !.running = n - bad]
    /\ UNCHANGED <<coreVars, scan, wloop, shutdown, tok>>

\* a spawned task ends
TaskEnds(outcome) ==
    /\ batch.pc = "joining" /\ batch.running > 0
    /\ batch' = [batch EXCEPT !.running = @ - 1, !.done[outcome] = @ + 1]
    /\ UNCHANGED <<coreVars, scan, wloop, shutdown, tok>>

\* futures.next() yields the result of a finished task
JoinNext(outcome) ==
    /\ batch.pc = "joining" /\ batch.done[outcome] > 0
    /\ batch' = [Aggregate(batch, outcome) EXCEPT !.done[outcome] = @ - 1,
                                                  !.joined[outcome] = @ + 1]
    /\ UNCHANGED <<coreVars, scan, wloop, shutdown, tok>>

\* futures.next() yields None (no task left in the set): the handler returns
HandlerReturn ==
    /\ batch.pc = "joining" /\ batch.running = 0 /\ batch.done = NoTasks
    /\ batch' = [batch EXCEPT
                    !.pc = "returned",
                    !.ret = IF batch.failure_detected
                            THEN [ok |-> FALSE, err |-> "Broadcast failure detected",
                                  count |-> 0]
                            ELSE [ok |-> TRUE, err |-> None,
                                  count |-> batch.success_count]]
    /\ UNCHANGED <<coreVars, scan, wloop, shutdown, tok>>

\* ------------------------------------------------------------ page tokens
\* Strings are sequences of bytes.  The bytes that occur in the modelled
\* keys: the quote (34) and the backslash (92), the two printable bytes
\* serde_json escapes, and a letter (97).
KeyNames == {<<80, 75>>, <<83, 75>>}     \* "PK", "SK"

\* Err of a conversion (decode, parse); map only gives the record of a
\* decoded token one shape
Failed == [ok |-> FALSE, map |-> <<>>]

RECURSIVE StringsUpTo(_)
StringsUpTo(n) ==
    IF n = 0 THEN {<<>>}
    ELSE LET shorter == StringsUpTo(n - 1)
         IN shorter \cup {Append(t, b) : t \in shorter, b \in {34, 92, 97}}

\* HashMap<String, AttributeValue> over the key names; an AttributeValue
\* is S(string) or another variant (N)
KeyMaps ==
    UNION {[d -> {[t |-> "S", v |-> str] : str \in StringsUpTo(MaxStr)}
                    \cup {[t |-> "N", v |-> <<49>>]}] : d \in SUBSET KeyNames}

\* the orders in which a HashMap with these keys can be iterated
IterationOrders(keys) ==
    {o \in UNION {[1..n -> keys] : n \in {Cardinality(keys)}} :
        \A i, j \in DOMAIN o : i # j => o[i] # o[j]}

\* serde_json's form of one byte inside a string
JsonEscapeMutant(b) == <<b>>

JsonEscape(b) == IF b \in {34, 92} THEN <<92, b>> ELSE <<b>>

RECURSIVE JsonChars(_)
JsonChars(str) ==
    IF str = <<>> THEN <<>> ELSE JsonEscape(Head(str)) \o JsonChars(Tail(str))

JsonString(str) == <<34>> \o JsonChars(str) \o <<34>>

RECURSIVE JsonMembers(_, _)
JsonMembers(m, order) ==
    IF order = <<>> THEN <<>>
    ELSE JsonString(Head(order)) \o <<58>> \o JsonString(m[Head(order)])
         \o (IF Len(order) > 1 THEN <<44>> ELSE <<>>)
         \o JsonMembers(m, Tail(order))

\* serde_json::to_vec of a HashMap<String, String> iterated in the given order
to_vec(m, order) == <<123>> \o JsonMembers(m, order) \o <<125>>

\* the string whose opening quote is before position i (escapes other than
\* the two that to_vec writes for these bytes are not modelled)
RECURSIVE ParseChars(_, _, _)
ParseChars(bytes, i, acc) ==
    IF i > Len(bytes) THEN Failed
    ELSE IF bytes[i] = 34 THEN [ok |-> TRUE, s |-> acc, next |-> i + 1]
    ELSE IF bytes[i] = 92
    THEN IF i + 1 > Len(bytes) THEN Failed
         ELSE IF bytes[i + 1] \notin {34, 92} THEN Failed
         ELSE ParseChars(bytes, i + 2, Append(acc, bytes[i + 1]))
    ELSE ParseChars(bytes, i + 1, Append(acc, bytes[i]))

ParseString(bytes, i) ==
    IF i > Len(bytes) THEN Failed
    ELSE IF bytes[i] # 34 THEN Failed
    ELSE ParseChars(bytes, i + 1, <<>>)

\* the members of an object from position i on, added to acc (a repeated
\* key keeps its last value)
RECURSIVE ParseMembers(_, _, _)
ParseMembers(bytes, i, acc) ==
    LET k == ParseString(bytes, i)
        v == ParseString(bytes, k.next + 1)
        m == [x \in DOMAIN acc \cup {k.s} |-> IF x = k.s THEN v.s ELSE acc[x]]
    IN IF ~k.ok THEN Failed
       ELSE IF k.next > Len(bytes) THEN Failed
       ELSE IF bytes[k.next] # 58 THEN Failed
       ELSE IF ~v.ok THEN Failed
       ELSE IF v.next > Len(bytes) THEN Failed
       ELSE IF bytes[v.next] = 125
       THEN IF v.next = Len(bytes) THEN [ok |-> TRUE, map |-> m] ELSE Failed
       ELSE IF bytes[v.next] = 44 THEN ParseMembers(bytes, v.next + 1, m)
       ELSE Failed

\* serde_json::from_slice::<HashMap<String, String>>
from_slice(bytes) ==
    IF Len(bytes) < 2 THEN Failed
    ELSE IF bytes[1] # 123 THEN Failed
    ELSE IF bytes = <<123, 125>> THEN [ok |-> TRUE, map |-> <<>>]
    ELSE ParseMembers(bytes, 2, <<>>)

\* base64 STANDARD: a character is written as its index in the alphabet,
\* the padding character as 64
RECURSIVE Base64Encode(_)
Base64Encode(bytes) ==
    IF bytes = <<>> THEN <<>>
    ELSE IF Len(bytes) = 1
    THEN <<bytes[1] \div 4, (bytes[1] % 4) * 16, 64, 64>>
    ELSE IF Len(bytes) = 2
    THEN <<bytes[1] \div 4, (bytes[1] % 4) * 16 + bytes[2] \div 16,
           (bytes[2] % 16) * 4, 64>>
    ELSE <<bytes[1] \div 4, (bytes[1] % 4) * 16 + bytes[2] \div 16,
           (bytes[2] % 16) * 4 + bytes[3] \div 64, bytes[3] % 64>>
         \o Base64Encode(SubSeq(bytes, 4, Len(bytes)))

\* base64 STANDARD decode: whole quanta, padding only in the last one,
\* no stray bits before the padding
RECURSIVE Base64Decode(_)
Base64Decode(chars) ==
    IF chars = <<>> THEN [ok |-> TRUE, bytes |-> <<>>]
    ELSE IF Len(chars) < 4 THEN Failed
    ELSE LET c1 == chars[1]
             c2 == chars[2]
             c3 == chars[3]
             c4 == chars[4]
             last == Len(chars) = 4
             rest == Base64Decode(SubSeq(chars, 5, Len(chars)))
         IN IF c1 = 64 \/ c2 = 64 THEN Failed
            ELSE IF c3 = 64
            THEN IF last /\ c4 = 64 /\ c2 % 16 = 0
                 THEN [ok |-> TRUE, bytes |-> <<c1 * 4 + c2 \div 16>>]
                 ELSE Failed
            ELSE IF c4 = 64
            THEN IF last /\ c3 % 4 = 0
                 THEN [ok |-> TRUE,
                       bytes |-> <<c1 * 4 + c2 \div 16, (c2 % 16) * 16 + c3 \div 4>>]
                 ELSE Failed
            ELSE IF ~rest.ok THEN Failed
            ELSE [ok |-> TRUE,
                  bytes |-> <<c1 * 4 + c2 \div 16, (c2 % 16) * 16 + c3 \div 4,
                              (c3 % 4) * 64 + c4>> \o rest.bytes]

\* encode_page_token (the same body in both view managers): the S-valued
\* attributes as a map of strings, as JSON, as base64.  order is the
\* iteration order of the map of strings.
encode_page_token(key, order) ==
    LET string_map == [k \in {x \in DOMAIN key : key[x].t = "S"} |-> key[k].v]
    IN Base64Encode(to_vec(string_map, order))

\* decode_page_token (the same body in both view managers)
decode_page_token(token) ==
    LET decoded_bytes == Base64Decode(token)
        intermediate == from_slice(decoded_bytes.bytes)
    IN IF ~decoded_bytes.ok THEN Failed
       ELSE IF ~intermediate.ok THEN Failed
       ELSE [ok |-> TRUE,
             map |-> [k \in DOMAIN intermediate.map |->
                         [t |-> "S", v |-> intermediate.map[k]]]]

\* a view manager encodes the last evaluated key of a query page
EncodePageToken(manager, key, order) ==
    /\ tok.pc = "idle"
    /\ tok' = [pc |-> "encoded", manager |-> manager, key |-> key,
               token |-> encode_page_token(key, order), decoded |-> Failed]
    /\ UNCHANGED <<coreVars, scan, wloop, shutdown, batch>>

\* the same manager decodes the token the client sends back
DecodePageToken ==
    /\ tok.pc = "encoded"
    /\ tok' = [tok EXCEPT !.pc = "decoded", !.decoded = decode_page_token(tok.token)]
    /\ UNCHANGED <<coreVars, scan, wloop, shutdown, batch>>

\* --------------------------------------------------------------- watchers
ConfirmationPolls == {"k1", "k2"}
FinalizationPolls == {"f1"}
NoReceipt == -1

IdlePoll == [pc |-> "idle", hash |-> None, last |-> NoEvent, from_sk |-> 0]

\* the Status View rows a watcher gets for a transaction status
query_by_transaction_status(view, status) ==
    {view[l] : l \in {x \in Legs : view[x].status = status}}

\* the execution-status test of the finalization loop
ReceiptSucceededMutant(status) == status = 0

ReceiptSucceeded(status) == status = 1

\* the leg's transaction as the watcher passes it to on_confirmed:
\* tx.clone().with_status(Confirmed).with_block_number(block)
ConfirmedTxMutant(tx, block) == with_block_number(tx, block)

confirmed_tx(tx, block) == with_block_number(with_status(tx, "Confirmed"), block)

\* on_confirmed followed by the watcher's own persist of the returned event
ConfirmAndPersist(last_event, updated_tx, from_sk, clock) ==
    \E r \in {on_confirmed(last_event, updated_tx)} :
    \E t \in {Transit(Db, r, Origin("on_confirmed", last_event, from_sk, clock))} :
        IF ~t.ok THEN UNCHANGED storeVars
        ELSE \E p \in {persist(t.db, t.event, Origin("persist", t.event, t.sk, clock))} :
                Commit(IF p.ok THEN p.db ELSE t.db)

\* poll_confirmations, one Pending view up to the receipt request: a view
\* without hash, a failed load or an unparseable hash ends the poll, an
\* already confirmed main leg skips the view.
PollConfirmationsLoad(k) ==
    /\ pst[k].pc = "idle"
    /\ \E view \in query_by_transaction_status(statusView, "Pending") :
          \E r \in {get_latest_event(store, view.bundle_id)} :
          IF \/ view.tx_hash = None
             \/ ~r.ok
             \/ r.event.bundle_snapshot.main_tx.status = "Confirmed"
             \/ ParseHash(view.tx_hash) = None
          THEN pst' = [pst EXCEPT ![k] = IdlePoll]
          ELSE pst' = [pst EXCEPT ![k] =
                         [pc |-> "receipt", hash |-> ParseHash(view.tx_hash),
                          last |-> r.event,
                          from_sk |-> LatestSK(store, view.bundle_id)]]
    /\ UNCHANGED <<storeVars, smVars, clockOf, runVars, queue, pushed, procOf, wst, cache, lock,
                   chainTxs, receipts, sent>>

\* poll_confirmations from the receipt on: no receipt leaves the view for
\* the next poll; a receipt (its execution status is not read) confirms
\* the main leg when the latest event concerns the main leg.
PollConfirmationsReceipt(k) ==
    /\ pst[k].pc = "receipt"
    /\ CanAppend
    /\ LET last == pst[k].last
           updated_tx == confirmed_tx(last.bundle_snapshot.main_tx, 42)
       IN IF receipts[pst[k].hash] = NoReceipt \/ last.leg # "Main"
          THEN UNCHANGED storeVars
          ELSE ConfirmAndPersist(last, updated_tx, pst[k].from_sk, clockOf[k])
    /\ pst' = [pst EXCEPT ![k] = IdlePoll]
    /\ UNCHANGED <<smVars, clockOf, runVars, queue, pushed, procOf, wst, cache, lock, chainTxs,
                   receipts, sent>>

\* poll_finalizations, one Confirmed view up to the receipt request: only
\* a latest event on the fee leg whose fee transaction is not Confirmed
\* goes on.
PollFinalizationsLoad(f) ==
    /\ pst[f].pc = "idle"
    /\ \E view \in query_by_transaction_status(statusView, "Confirmed") :
          \E r \in {get_latest_event(store, view.bundle_id)} :
          IF \/ view.tx_hash = None
             \/ ~r.ok
             \/ r.event.leg # "Fee"
             \/ r.event.bundle_snapshot.fee_tx.status = "Confirmed"
             \/ ParseHash(view.tx_hash) = None
          THEN pst' = [pst EXCEPT ![f] = IdlePoll]
          ELSE pst' = [pst EXCEPT ![f] =
                         [pc |-> "receipt", hash |-> ParseHash(view.tx_hash),
                          last |-> r.event,
                          from_sk |-> LatestSK(store, view.bundle_id)]]
    /\ UNCHANGED <<storeVars, smVars, clockOf, runVars, queue, pushed, procOf, wst, cache, lock,
                   chainTxs, receipts, sent>>

\* poll_finalizations from the receipt on: no receipt or a receipt whose
\* status is not success leaves the bundle as it is; a successful receipt
\* confirms the fee leg.
PollFinalizationsReceipt(f) ==
    /\ pst[f].pc = "receipt"
    /\ CanAppend
    /\ LET last == pst[f].last
           status == receipts[pst[f].hash]
           updated_tx == with_receipt_status(
                             confirmed_tx(last.bundle_snapshot.fee_tx, 42), status)
       IN IF status = NoReceipt \/ ~ReceiptSucceeded(status) \/ last.leg # "Fee"
          THEN UNCHANGED storeVars
          ELSE ConfirmAndPersist(last, updated_tx, pst[f].from_sk, clockOf[f])
    /\ pst' = [pst EXCEPT ![f] = IdlePoll]
    /\ UNCHANGED <<smVars, clockOf, runVars, queue, pushed, procOf, wst, cache, lock, chainTxs,
                   receipts, sent>>

\* --- one poll as a loop over the rows of its query ---
\* What the handling of a row meets first; "confirmed" and "reverted" are
\* the receipts that were obtained (execution status 1 and 0).
RowCases ==
    {"missing_hash", "load_error", "already_confirmed", "bad_hash", "no_receipt",
     "rpc_error", "other_leg", "reverted", "rejected", "persist_error", "confirmed"}

Continue == [flow |-> "continue", err |-> None, counted |-> 0]
Counted == [flow |-> "continue", err |-> None, counted |-> 1]
Return(e) == [flow |-> "return", err |-> e, counted |-> 0]

\* the body of the for loop of poll_confirmations on one row
ConfirmationRow(case) ==
    CASE case = "missing_hash" -> Return("MissingTxHash")
      [] case = "load_error" -> Return("ReceiptFetchFailure")
      [] case = "already_confirmed" -> Continue
      [] case = "bad_hash" -> Return("InvalidTxHashFormat")
      [] case = "no_receipt" -> Continue
      [] case = "rpc_error" -> Return("ReceiptFetchFailure")
      [] case = "other_leg" -> Continue
      [] case = "rejected" -> Return("InvalidState")
      [] case = "persist_error" -> Return("DynamoDb")
      [] case \in {"confirmed", "reverted"} -> Counted

\* the body of the for loop of poll_finalizations on one row
FinalizationRow(case) ==
    CASE case \in {"missing_hash", "load_error", "other_leg", "already_confirmed",
                   "bad_hash", "reverted", "no_receipt", "rpc_error"} -> Continue
      [] case = "rejected" -> Return("InvalidState")
      [] case = "persist_error" -> Return("DynamoDb")
      [] case = "confirmed" -> Counted

IdleScan ==
    [pc |-> "idle", kind |-> None, rows |-> <<>>, idx |-> 0, count |-> 0,
     ret |-> None, handled |-> {}]

\* a poll starts with the rows its Status View query returned
PollBegin(kind, rows) ==
    /\ scan.pc \in {"idle", "done"}
    /\ scan' = [IdleScan EXCEPT !.pc = "loop", !.kind = kind, !.rows = rows, !.idx = 1]
    /\ UNCHANGED <<storeVars, smVars, clockOf, queue, pushed, procOf, wst, cache, lock,
                   chainTxs, receipts, sent, pst, wloop, shutdown, auxVars>>

\* one iteration of the for loop
PollRow ==
    /\ scan.pc = "loop"
    /\ scan.idx <= Len(scan.rows)
    /\ LET r == IF scan.kind = "confirmations"
                THEN ConfirmationRow(scan.rows[scan.idx])
                ELSE FinalizationRow(scan.rows[scan.idx])
       IN scan' = IF r.flow = "return"
                  THEN [scan EXCEPT !.pc = "done", !.ret = r.err,
                                    !.handled = @ \cup {scan.idx}]
                  ELSE [scan EXCEPT !.idx = @ + 1, !.count = @ + r.counted,
                                    !.handled = @ \cup {scan.idx}]
    /\ UNCHANGED <<storeVars, smVars, clockOf, queue, pushed, procOf, wst, cache, lock,
                   chainTxs, receipts, sent, pst, wloop, shutdown, auxVars>>

\* the end of the for loop: Ok(count)
PollReturn ==
    /\ scan.pc = "loop"
    /\ scan.idx > Len(scan.rows)
    /\ scan' = [scan EXCEPT !.pc = "done", !.ret = "Ok"]
    /\ UNCHANGED <<storeVars, smVars, clockOf, queue, pushed, procOf, wst, cache, lock,
                   chainTxs, receipts, sent, pst, wloop, shutdown, auxVars>>

\* --- the watcher process: two loop tasks and the shutdown signal ---
WatcherLoops == {"confirm", "finalize"}

restVars == <<storeVars, smVars, clockOf, queue, pushed, procOf, wst, cache, lock,
              chainTxs, receipts, sent, pst, scan, auxVars>>

\* the loop body up to the select: the poll returns (Ok or Err, both only
\* logged), the metric is tracked, and the task waits in select! on the
\* sleep and on shutdown.notified()
LoopPollDone(l) ==
    /\ wloop[l].pc = "polling"
    /\ wloop' = [wloop EXCEPT ![l] =
                    [pc |-> "waiting",
                     polls |-> IF @.polls < MaxPolls THEN @.polls + 1 ELSE @.polls]]
    /\ UNCHANGED <<restVars, shutdown>>

\* the sleep branch of select!: the next iteration starts
LoopSleepElapsed(l) ==
    /\ wloop[l].pc = "waiting"
    /\ wloop' = [wloop EXCEPT ![l].pc = "polling"]
    /\ UNCHANGED <<restVars, shutdown>>

\* ctrl_c arrives: shutdown_signal.notify_waiters() wakes the tasks that
\* wait on notified() at that moment, which break out of their loop; it
\* stores no permit for a task that is not waiting
ShutdownSignal ==
    /\ shutdown = "running"
    /\ shutdown' = "signalled"
    /\ wloop' = [l \in WatcherLoops |->
                    IF wloop[l].pc = "waiting" THEN [wloop[l] EXCEPT !.pc = "exited"]
                    ELSE wloop[l]]
    /\ UNCHANGED restVars

\* tokio::try_join!(confirm_handle, finalize_handle) completes
ShutdownJoin ==
    /\ shutdown = "signalled"
    /\ \A l \in WatcherLoops : wloop[l].pc = "exited"
    /\ shutdown' = "joined"
    /\ UNCHANGED <<restVars, wloop>>

\* ------------------------------------------------------------ environment
\* The producer puts one message on the broadcast queue for a broadcastable
\* state of the bundle that has none yet.
EnqueueMessage ==
    \E r \in {get_latest_event(store, Bundle)} :
    /\ r.ok
    /\ SelectLeg(r.event).leg # None
    /\ r.event.bundle_status \notin pushed
    /\ pushed' = pushed \cup {r.event.bundle_status}
    /\ queue' = queue \cup {BroadcastMessage(r.event.bundle_status)}
    /\ UNCHANGED <<storeVars, smVars, clockOf, runVars, procOf, wst, cache, lock, chainTxs,
                   receipts, sent, pst>>

\* the chain mines an accepted transaction; its receipt carries the
\* execution status (1 success, 0 reverted)
Mine(h, status) ==
    /\ h \in chainTxs
    /\ receipts[h] = NoReceipt
    /\ receipts' = [receipts EXCEPT ![h] = status]
    /\ UNCHANGED <<storeVars, smVars, clockOf, runVars, queue, pushed, procOf, wst, cache, lock,
                   chainTxs, sent, pst>>

\* a host clock that runs ahead of the others
ClockDrift(k) ==
    /\ now[k] < MaxSkew
    /\ now' = [now EXCEPT ![k] = @ + 1]
    /\ UNCHANGED <<store, nextId, statusView, historyView, dynamoFault, log,
                   smVars, sysVars>>

\* ------------------------------------------------------------------ specs
Actors == Callers \cup Workers \cup ConfirmationPolls \cup FinalizationPolls

InitSystem ==
    /\ queue = {}
    /\ pushed = {}
    /\ wst = [w \in Workers |-> IdleWorker]
    /\ cache = [p \in Procs |-> <<>>]
    /\ lock = [p \in Procs |-> None]
    /\ chainTxs = {}
    /\ receipts = [h \in Hashes |-> NoReceipt]
    /\ sent = {}
    /\ pst = [k \in ConfirmationPolls \cup FinalizationPolls |-> IdlePoll]
    /\ scan = IdleScan
    /\ wloop = [l \in WatcherLoops |-> [pc |-> "polling", polls |-> 0]]
    /\ shutdown = "running"
    /\ tok = [pc |-> "idle", manager |-> None, key |-> <<>>, token |-> <<>>,
              decoded |-> Failed]
    /\ batch = IdleBatch

\* all processes read one clock
SharedClock == clockOf = [a \in Actors |-> "utc"]

\* SpecSM: one API caller drives the state machine and the store directly
InitSM ==
    /\ InitStore /\ InitCallers /\ InitSystem /\ SharedClock
    /\ procOf = [w \in Workers |-> "p1"]

NextSM ==
    \/ persist_initial_event("c1")
    \/ CallGetLatestEvent("c1")
    \/ CallOnSigned("c1")
    \/ \E h \in Hashes : CallOnBroadcast("c1", h)
    \/ CallOnConfirmed("c1")
    \/ \E leg \in Legs : CallOnFail("c1", leg)
    \/ \E leg \in Legs : CallOnError("c1", leg)
    \/ CallPersist("c1")

SpecSM == InitSM /\ [][NextSM]_vars

\* Spec: the whole system; the API initiates and signs, the workers of one
\* or two broadcaster processes and overlapping watcher polls do the rest,
\* and the chain may refuse, lose or revert.
Init ==
    /\ InitStore /\ InitCallers /\ InitSystem /\ SharedClock
    /\ procOf \in {f \in [Workers -> Procs] : f["w1"] = "p1"}

Next ==
    \/ persist_initial_event("c1")
    \/ CallGetLatestEvent("c1")
    \/ CallOnSigned("c1")
    \/ EnqueueMessage
    \/ \E w \in Workers, m \in Messages : WorkerLoad(w, m)
    \/ \E w \in Workers : WorkerDedup(w)
    \/ \E w \in Workers : WorkerEmit(w)
    \/ \E w \in Workers, o \in {"accepted", "lost", "error"} : WorkerSend(w, o)
    \/ \E w \in Workers : WorkerRecord(w)
    \/ \E w \in Workers, o \in {"some", "none", "err"} : WorkerLookup(w, o)
    \/ \E w \in Workers : WorkerFail(w)
    \/ \E h \in Hashes, status \in {0, 1} : Mine(h, status)
    \/ \E k \in ConfirmationPolls : PollConfirmationsLoad(k)
    \/ \E k \in ConfirmationPolls : PollConfirmationsReceipt(k)
    \/ \E f \in FinalizationPolls : PollFinalizationsLoad(f)
    \/ \E f \in FinalizationPolls : PollFinalizationsReceipt(f)

Spec == Init /\ [][Next]_vars

\* SpecLive: the deployment of the end-to-end scenario: one watcher process
\* (one poll of each kind at a time), a chain that accepts a transaction it
\* does not know, answers a resubmission with an error, finds a known
\* transaction and mines every transaction successfully.
NominalSend(w) ==
    IF wst[w].hash \in chainTxs THEN WorkerSend(w, "error") ELSE WorkerSend(w, "accepted")

NextLive ==
    \/ persist_initial_event("c1")
    \/ CallGetLatestEvent("c1")
    \/ CallOnSigned("c1")
    \/ EnqueueMessage
    \/ \E w \in Workers, m \in Messages : WorkerLoad(w, m)
    \/ \E w \in Workers : WorkerDedup(w)
    \/ \E w \in Workers : WorkerEmit(w)
    \/ \E w \in Workers : NominalSend(w)
    \/ \E w \in Workers : WorkerRecord(w)
    \/ \E w \in Workers : WorkerLookup(w, "some")
    \/ \E h \in Hashes : Mine(h, 1)
    \/ PollConfirmationsLoad("k1")
    \/ PollConfirmationsReceipt("k1")
    \/ PollFinalizationsLoad("f1")
    \/ PollFinalizationsReceipt("f1")

\* the steps of one component of the deployment
ApiStep == persist_initial_event("c1") \/ CallGetLatestEvent("c1") \/ CallOnSigned("c1")
ChainStep == \E h \in Hashes : Mine(h, 1)
WorkerStep(w) ==
    \/ \E m \in Messages : WorkerLoad(w, m)
    \/ WorkerDedup(w)
    \/ WorkerEmit(w)
    \/ NominalSend(w)
    \/ WorkerRecord(w)
    \/ WorkerLookup(w, "some")
ConfirmationStep == PollConfirmationsLoad("k1") \/ PollConfirmationsReceipt("k1")
FinalizationStep == PollFinalizationsLoad("f1") \/ PollFinalizationsReceipt("f1")

\* every broadcaster worker and both watcher loops keep running, and the
\* API, the queue producer and the chain do what they can do
Fairness ==
    /\ WF_vars(ApiStep)
    /\ WF_vars(EnqueueMessage \/ ChainStep)
    /\ \A w \in Workers : WF_vars(WorkerStep(w))
    /\ WF_vars(ConfirmationStep)
    /\ WF_vars(FinalizationStep)

SpecLive == Init /\ [][NextLive]_vars /\ Fairness

\* SpecAck: one broadcaster worker that keeps being invoked, the watcher and
\* the chain of SpecLive, and the commit endpoint as a second producer of
\* queue messages.  A submission may fail and its lookup may give any answer.
QueueMessages == Messages \cup {push_to_broadcast_queue(Bundle, User)}

NextAck ==
    \/ ApiStep
    \/ EnqueueMessage
    \/ PushToBroadcastQueue
    \/ \E m \in QueueMessages : WorkerSkip("w1", m)
    \/ \E m \in Messages : WorkerLoad("w1", m)
    \/ WorkerDedup("w1")
    \/ \E o \in {"accepted", "lost", "error"} : WorkerSend("w1", o)
    \/ WorkerRecord("w1")
    \/ \E o \in {"some", "none", "err"} : WorkerLookup("w1", o)
    \/ WorkerFail("w1")
    \/ ChainStep
    \/ ConfirmationStep
    \/ FinalizationStep

\* the broadcaster is invoked again and again and finishes what it starts;
\* the producers, the chain and the watcher loops do what they can do
FairnessAck ==
    /\ WF_vars(ApiStep \/ EnqueueMessage \/ PushToBroadcastQueue \/ ChainStep)
    /\ WF_vars(\/ \E m \in QueueMessages : WorkerSkip("w1", m)
               \/ \E m \in Messages : WorkerLoad("w1", m)
               \/ WorkerDedup("w1")
               \/ \E o \in {"accepted", "lost", "error"} : WorkerSend("w1", o)
               \/ WorkerRecord("w1")
               \/ \E o \in {"some", "none", "err"} : WorkerLookup("w1", o)
               \/ WorkerFail("w1"))
    /\ WF_vars(ConfirmationStep \/ FinalizationStep)

SpecAck == InitSM /\ [][NextAck]_vars /\ FairnessAck

\* SpecStore: two API processes on hosts whose clocks are not synchronised
\* write and read the event table.
InitStoreSkew ==
    /\ InitStore /\ InitCallers /\ InitSystem
    /\ clockOf = [a \in Actors |-> IF a = "c1" THEN "host1"
                                   ELSE IF a = "c2" THEN "host2" ELSE "utc"]
    /\ procOf = [w \in Workers |-> "p1"]

NextStore ==
    \/ \E k \in {"host1", "host2"} : ClockDrift(k)
    \/ \E c \in Callers : persist_initial_event(c)
    \/ \E c \in Callers : CallGetLatestEvent(c)
    \/ \E c \in Callers : CallOnSigned(c)
    \/ \E c \in Callers, h \in Hashes : CallOnBroadcast(c, h)

SpecStore == InitStoreSkew /\ [][NextStore]_vars

\* --- the dedup caches under a stream of payload hashes ---
\* Tasks of a process reach the dedup block one after the other, each with
\* the hash of its payload: a hash not presented to that process before
\* (hashes are numbered in the order of their first presentation) or one
\* the cache still holds.
StreamHashes == 1..MaxHashes

SeqMax(seq) == IF seq = <<>> THEN 0 ELSE CHOOSE x \in StreamHashes :
                   /\ Contains(seq, x)
                   /\ \A i \in 1..Len(seq) : seq[i] <= x

\* the dedup block (contains, push_back, pop_front) on hash h
DedupBlock(p, h) ==
    /\ lock[p] = None
    /\ h = SeqMax(cache[p]) + 1 \/ Contains(cache[p], h)
    /\ cache' = [cache EXCEPT ![p] = IF Contains(@, h) THEN @ ELSE Reserve(@, h)]
    /\ UNCHANGED <<storeVars, smVars, clockOf, runVars, queue, pushed, procOf, wst, lock,
                   chainTxs, receipts, sent, pst>>

NextCache == \E p \in Procs, h \in StreamHashes : DedupBlock(p, h)

SpecCache == InitSM /\ [][NextCache]_vars

\* --- signing with the payloads a client may send ---
NextSign ==
    \/ persist_initial_event("c1")
    \/ CallGetLatestEvent("c1")
    \/ \E fee_signed, main_signed \in {"", FeeSigned, MainSigned} :
          CallOnSignedWith("c1", fee_signed, main_signed)
    \/ \E h \in Hashes : CallOnBroadcast("c1", h)
    \/ \E leg \in Legs : CallOnFail("c1", leg)

SpecSign == InitSM /\ [][NextSign]_vars

\* --- the watcher process and its shutdown ---
NextShutdown ==
    \/ \E l \in WatcherLoops : LoopPollDone(l)
    \/ \E l \in WatcherLoops : LoopSleepElapsed(l)
    \/ ShutdownSignal
    \/ ShutdownJoin

\* every task of the runtime that can run does run
ShutdownFairness ==
    /\ \A l \in WatcherLoops : WF_vars(LoopPollDone(l) \/ LoopSleepElapsed(l))
    /\ WF_vars(ShutdownJoin)

SpecShutdown == InitSM /\ [][NextShutdown]_vars /\ ShutdownFairness

\* --- one watcher poll over the rows of its query ---
NextPoll ==
    \/ \E kind \in {"confirmations", "finalizations"}, rows \in UNION {[1..n -> RowCases] : n \in 0..MaxRows} :
          PollBegin(kind, rows)
    \/ PollRow
    \/ PollReturn

SpecPoll == InitSM /\ [][NextPoll]_vars

\* --- the event store with failing DynamoDB calls ---
\* One API caller; before any persist the environment may make one of the
\* three DynamoDB writes of that persist fail: the put of the event, the
\* Status View projection or the History View projection.

InjectFault(f) ==
    /\ dynamoFault = "none"
    /\ dynamoFault' = f
    /\ UNCHANGED <<store, nextId, now, statusView, historyView, log, smVars, sysVars>>

\* SpecBatch: invocations of the broadcaster's handler, one after another
NextBatch ==
    \/ HandlerReceiveFails
    \/ \E queued \in 0..MaxQueued, bad \in 0..MaxQueued : HandlerReceive(queued, bad)
    \/ \E outcome \in TaskOutcomes : TaskEnds(outcome)
    \/ \E outcome \in TaskOutcomes : JoinNext(outcome)
    \/ HandlerReturn

SpecBatch == InitSM /\ [][NextBatch]_vars

\* SpecToken: page tokens are encoded and decoded for every key map
NextToken ==
    \/ \E manager \in {"TransactionStatusViewManager", "TransactionHistoryViewManager"},
          key \in KeyMaps :
       \E order \in IterationOrders({x \in DOMAIN key : key[x].t = "S"}) :
          EncodePageToken(manager, key, order)
    \/ DecodePageToken

SpecToken == InitSM /\ [][NextToken]_vars

\* SpecMeta: the API caller of SpecSM with bundles whose metadata
\* (Option<BundleMetadata>) or whose party details (Option<PartyDetails>)
\* may be absent
MetadataCases ==
    {[present |-> FALSE, sender |-> None, recipient |-> None],
     [present |-> TRUE, sender |-> None, recipient |-> Recipient],
     [present |-> TRUE, sender |-> User, recipient |-> None],
     [present |-> TRUE, sender |-> User, recipient |-> Recipient]}

NextMeta ==
    \/ \E m \in MetadataCases :
          persist_initial_event_with("c1", [NewBundle EXCEPT !.metadata = m])
    \/ CallGetLatestEvent("c1")
    \/ CallOnSigned("c1")
    \/ \E h \in Hashes : CallOnBroadcast("c1", h)
    \/ \E leg \in Legs : CallOnFail("c1", leg)
    \/ CallPersist("c1")

SpecMeta == InitSM /\ [][NextMeta]_vars

NextFault ==
    \/ \E f \in {"put", "status", "history"} : InjectFault(f)
    \/ persist_initial_event("c1")
    \/ CallGetLatestEvent("c1")
    \/ CallOnSigned("c1")
    \/ CallOnBroadcast("c1", "h_aa")
    \/ CallPersist("c1")

SpecFault == InitSM /\ [][NextFault]_vars

\* ------------------------------------------------------------- properties
StateMachineOps == {"on_signed", "on_broadcast", "on_fail", "on_error"}

\* the rows of the transition table for the four operations
TableRow(op, type, status) ==
    CASE op = "on_signed" -> type = "Initiate" /\ status = "Initiated"
      [] op = "on_broadcast" -> \/ type = "Sign" /\ status = "Signed"
                                \/ type = "Confirm" /\ status = "MainConfirmed"
      [] op \in {"on_fail", "on_error"} -> status \notin TerminalStatuses
      [] OTHER -> FALSE

LastEntry == log[Len(log)]

\* C1: a call of on_signed, on_broadcast, on_fail or on_error appends an
\* event only if (last event type, last bundle status) is a row of the
\* transition table; on any other pair it returns InvalidTransition and the
\* log is unchanged.
C1_OnlyTableTransitions ==
    /\ \A i \in 1..Len(log) :
          log[i].op \in StateMachineOps =>
              TableRow(log[i].op, log[i].from_type, log[i].from_status)
    /\ (result.op \in StateMachineOps
          /\ ~TableRow(result.op, result.from_type, result.from_status))
       => (result.err = "InvalidTransition" /\ ~result.appended)

\* C3: on_broadcast yields a Fee broadcast only from (Confirm,
\* MainConfirmed) and a Main broadcast only from (Sign, Signed); from
\* (Sign, Signed) never a Fee broadcast; from every other pair it fails with
\* InvalidTransition and appends nothing.
C3_BroadcastLegFollowsLastEvent ==
    /\ \A i \in 1..Len(log) :
          log[i].op = "on_broadcast" =>
              /\ log[i].item.EventType = "Broadcast"
              /\ log[i].item.Leg = "Fee" =>
                    (log[i].from_type = "Confirm" /\ log[i].from_status = "MainConfirmed")
              /\ log[i].item.Leg = "Main" =>
                    (log[i].from_type = "Sign" /\ log[i].from_status = "Signed")
              /\ log[i].item.Leg \in Legs
    /\ result.op = "on_broadcast" =>
          IF \/ result.from_type = "Sign" /\ result.from_status = "Signed"
             \/ result.from_type = "Confirm" /\ result.from_status = "MainConfirmed"
          THEN result.appended /\ result.err = None
          ELSE ~result.appended /\ result.err = "InvalidTransition"

\* a Fee broadcast and a Main broadcast were appended, and the call just
\* made was an on_broadcast that was refused
C3_Witness ==
    /\ \E i \in 1..Len(log) : log[i].op = "on_broadcast" /\ log[i].item.Leg = "Fee"
    /\ \E i \in 1..Len(log) : log[i].op = "on_broadcast" /\ log[i].item.Leg = "Main"
    /\ result.op = "on_broadcast" /\ result.err = "InvalidTransition"

\* C4: terminal bundle statuses are absorbing: no event is appended after an
\* event that carries Completed, Failed, Cancelled or Errored, and a call on
\* such a last event is rejected.
C4_TerminalIsAbsorbing ==
    /\ \A i \in 1..Len(log) :
          i < Len(log) => log[i].item.BundleStatus \notin TerminalStatuses
    /\ (result.op \in StateMachineOps /\ result.from_status \in TerminalStatuses)
       => ~result.appended

\* C8: persist of an event that already has an event_id fails with
\* AlreadyPersisted, writes nothing to the event table and projects nothing.
C8_PersistRejectsIdentifiedEvent ==
    [][(result'.op = "persist" /\ result'.from_id # 0)
          => /\ result'.err = "AlreadyPersisted"
             /\ ~result'.appended
             /\ store' = store /\ statusView' = statusView /\ log' = log]_vars

\* persist was called with an event carrying a store-assigned id and refused
C8_Witness ==
    /\ result.op = "persist" /\ result.from_id # 0
    /\ result.err = "AlreadyPersisted"
    /\ \E i \in store : i.EventID = result.from_id

\* C9: an event a caller holds that stands for a stored item carries a
\* non-empty, store-assigned event_id (also when it came from
\* get_latest_event), so persist refuses it.
C9_DurableEventHasId ==
    /\ \A c \in Callers : heldFrom[c] # 0 => held[c].event_id # 0
    /\ (result.op = "persist" /\ \E c \in Callers : heldFrom[c] # 0)
       => result.err = "AlreadyPersisted"

\* C2: the fee leg's signed payload is submitted to the chain only when the
\* log already contains a Confirm event of the main leg with bundle status
\* MainConfirmed; it is never submitted while the main leg is unconfirmed.
C2_FeeSentOnlyAfterMainConfirmed ==
    \A s \in sent :
        (s.leg = "Fee" \/ s.hash = keccak256(HexDecode(FeeSigned))) => s.main_confirmed

\* the fee payload was submitted, after the main leg was confirmed
C2_Witness ==
    \E s \in sent :
        s.leg = "Fee" /\ s.hash = keccak256(HexDecode(FeeSigned)) /\ s.main_confirmed

\* C5: of two writers that read the same latest event at most one appends
\* an event, so the log is a single chain in which every event was built
\* from its immediate predecessor.
C5_SingleLinearChain ==
    /\ \A i, j \in 1..Len(log) :
          (i < j /\ log[i].from_sk # 0) => log[i].from_sk # log[j].from_sk
    /\ \A i \in 2..Len(log) : log[i].from_sk = log[i - 1].item.SK

\* C6: the log never holds two Confirm events for the same leg.
C6_AtMostOneConfirmPerLeg ==
    \A l \in Legs :
        Cardinality({i \in 1..Len(log) :
                        log[i].item.EventType = "Confirm" /\ log[i].item.Leg = l}) <= 1

HappySequence ==
    << <<"Initiate", None, "Initiated">>, <<"Sign", None, "Signed">>,
       <<"Broadcast", "Main", "Signed">>, <<"Confirm", "Main", "MainConfirmed">>,
       <<"Broadcast", "Fee", "MainConfirmed">>, <<"Confirm", "Fee", "Completed">> >>

LogShape ==
    [i \in 1..Len(log) |->
        <<log[i].item.EventType, log[i].item.Leg, log[i].item.BundleStatus>>]

LatestBundleStatus ==
    IF ItemsOf(store, Bundle) = {} THEN None
    ELSE get_latest_event(store, Bundle).event.bundle_status

C10_LatestIsMostRecentPersist ==
    log # <<>> =>
        LET e == get_latest_event(store, Bundle).event
            item == LastEntry.item
        IN /\ e.event_type = item.EventType
           /\ e.leg = item.Leg
           /\ e.bundle_status = item.BundleStatus
           /\ e.transaction_status = item.TransactionStatus
           /\ e.bundle_snapshot = FromJson(item.BundleSnapshot)

\* C11: the event log is append-only: every successful persist adds exactly
\* one stored event, and no stored event is ever replaced or removed, also
\* when two persists obtain the same sort key.
C11_AppendOnly ==
    /\ Cardinality(store) = Len(log)
    /\ \A i \in 1..Len(log) : log[i].item \in store

\* C12: the projections run only after the event is written, and a failed
\* projection does not change persist's result: the event is stored and the
\* call returns Ok with the assigned id, the other view being projected from
\* the table that holds the new event; a failed put returns an error, stores
\* nothing and projects nothing.
C12_ProjectionFailureNotFatal ==
    [][(dynamoFault # "none" /\ dynamoFault' = "none")
          => IF dynamoFault = "put"
             THEN /\ result'.err = "DynamoDb" /\ ~result'.appended
                  /\ store' = store /\ log' = log
                  /\ statusView' = statusView /\ historyView' = historyView
             ELSE /\ result'.err = None /\ result'.appended
                  /\ Len(log') = Len(log) + 1
                  /\ log'[Len(log')].item \in store' \ store
                  /\ result'.op # "initiate"
                        => result'.id = log'[Len(log')].item.EventID
                  /\ dynamoFault = "status"
                        => /\ statusView' = statusView
                           /\ \E r \in historyView' :
                                 r.SK = <<Bundle, log'[Len(log')].item.SK>>
                  /\ dynamoFault = "history"
                        => /\ historyView' = historyView
                           /\ statusView' = project(statusView, store', Bundle)]_vars

\* a persist whose History View projection failed and a later one whose
\* Status View projection failed both returned Ok and left their events stored
C12_Witness ==
    /\ result.appended /\ result.err = None /\ result.op = "on_signed"
    /\ statusView # project(statusView, store, Bundle)
    /\ \E i \in store : \A r \in historyView : r.SK # <<Bundle, i.SK>>

\* C13: a worker that reaches the dedup check with a hash already in its
\* process's cache makes no chain call (it goes on to neither the submission
\* nor the lookup), appends no event, leaves the cache as it is and returns
\* Ok after emitting DuplicateTxSkipped.
C13_DuplicateSkipsBroadcast ==
    [][\A w \in Workers :
          /\ (/\ wst[w].pc = "dedup"
              /\ \E i \in 1..Len(cache[procOf[w]]) : cache[procOf[w]][i] = wst[w].hash
              /\ wst'[w] # wst[w])
                => /\ wst'[w].pc = "emit"
                   /\ cache' = cache /\ sent' = sent /\ chainTxs' = chainTxs
                   /\ log' = log /\ store' = store
          /\ (wst[w].pc = "emit" /\ wst'[w] # wst[w])
                => /\ wst'[w].pc = "idle"
                   /\ wst'[w].ret = "Ok" /\ wst'[w].metric = "DuplicateTxSkipped"
                   /\ cache' = cache /\ sent' = sent /\ chainTxs' = chainTxs
                   /\ log' = log /\ store' = store]_vars

\* a worker has returned from the duplicate path
C13_Witness ==
    \E w \in Workers :
        /\ wst[w].pc = "idle" /\ wst[w].metric = "DuplicateTxSkipped"
        /\ sent # {}

\* C14: of the workers of one process that handle the same payload hash, at
\* most one calls send_raw_transaction: no submission is a process's second
\* one for its hash.
C14_AtMostOneSendPerHash == \A s \in sent : s.nth = 1

\* two workers of one process hold the same hash at once: one is past the
\* reservation, the other was stopped by the dedup check
C14_Witness ==
    \E w, v \in Workers :
        /\ w # v /\ procOf[w] = procOf[v]
        /\ wst[w].hash = wst[v].hash
        /\ wst[w].pc \in {"send", "record", "lookup", "fail"}
        /\ wst[v].pc = "emit"

\* C16: no worker is in a network call (the CloudWatch put of emit, the
\* chain calls, the DynamoDB and SQS calls of the recording steps) while it
\* holds the write lock of the cache.
C16_NoIoUnderLock ==
    \A w \in Workers :
        lock[procOf[w]] = w => wst[w].pc \notin {"emit", "send", "record", "lookup", "fail"}

\* C15: the recent-hash cache never holds more than 10 hashes nor a hash
\* twice, and it changes only by a push at the back, which at 10 hashes
\* also removes the front (the hash inserted earliest).
C15_BoundedFifoCache ==
    /\ [](\A p \in Procs :
            /\ Len(cache[p]) <= CacheCapacity
            /\ \A i, j \in 1..Len(cache[p]) : cache[p][i] = cache[p][j] => i = j)
    /\ [][\A p \in Procs :
            cache'[p] # cache[p]
               => \E h \in StreamHashes :
                     /\ ~(\E i \in 1..Len(cache[p]) : cache[p][i] = h)
                     /\ cache'[p] = IF Len(cache[p]) < CacheCapacity
                                    THEN Append(cache[p], h)
                                    ELSE Append(Tail(cache[p]), h)]_vars

\* the cache is full and the hash inserted first has been evicted
C15_Witness ==
    \E p \in Procs :
        /\ Len(cache[p]) = CacheCapacity
        /\ \A i \in 1..Len(cache[p]) : cache[p][i] # 1

\* a Broadcast event for the leg with the hash is in the log l: its
\* snapshot has the leg Pending with that hash
BroadcastRecorded(l, leg, hash) ==
    \E i \in 1..Len(l) :
        LET b == FromJson(l[i].item.BundleSnapshot)
            tx == IF leg = "Main" THEN b.main_tx ELSE b.fee_tx
        IN /\ l[i].item.EventType = "Broadcast"
           /\ l[i].item.Leg = leg
           /\ tx.status = "Pending"
           /\ tx.transaction_hash = HashStr(hash)
           /\ b.status = l[i].from_status

\* C17: when a worker acknowledges its message and returns Ok after the
\* chain took its submission (the call succeeded, or failed with the
\* transaction found on-chain), the log holds a Broadcast event for that
\* leg with the leg Pending, the hash set and the bundle status unchanged.
C17_AckedSubmissionIsRecorded ==
    [][\A w \in Workers :
          (/\ wst[w].pc \in {"record", "lookup"}
           /\ wst'[w].pc = "idle" /\ wst'[w].ret = "Ok")
             => BroadcastRecorded(log', wst[w].leg, wst[w].hash)]_vars

\* C18: a worker whose submission failed and whose lookup found the
\* transaction does what it does after a successful submission: it appends
\* the Broadcast event of the leg (Pending, with the hash), deletes the
\* message and returns Ok.
C18_RecoveryRecordsBroadcast ==
    [][\A w \in Workers :
          (wst[w].pc = "lookup" /\ wst'[w].pc = "idle")
             => /\ Len(log') = Len(log) + 1
                /\ log'[Len(log')].item.EventType = "Broadcast"
                /\ log'[Len(log')].item.Leg = wst[w].leg
                /\ BroadcastRecorded(log', wst[w].leg, wst[w].hash)
                /\ wst[w].msg \notin queue'
                /\ wst'[w].ret = "Ok"]_vars

C20_RevertedFeeReceiptFails ==
    [][\A f \in FinalizationPolls :
          (/\ pst[f].pc = "receipt" /\ pst'[f].pc = "idle"
           /\ receipts[pst[f].hash] # NoReceipt
           /\ receipts[pst[f].hash] # 1)
             => /\ Len(log') = Len(log) + 1
                /\ log'[Len(log')].item.EventType = "Fail"
                /\ log'[Len(log')].item.Leg = "Fee"
                /\ log'[Len(log')].item.BundleStatus = "Failed"]_vars

\* C21: a poll that has ended has handled every row its query returned:
\* an error on one row does not keep the rows after it from being processed.
C21_ErrorDoesNotAbortPoll ==
    scan.pc = "done" => scan.handled = 1..Len(scan.rows)

\* C22: once the shutdown signal has fired, whatever the loops were doing,
\* both loops exit and the join of the main task completes.
C22_ShutdownCompletes == (shutdown = "signalled") ~> (shutdown = "joined")

\* C23: no Sign event is produced from a missing payload: every stored
\* Sign event carries a non-empty signed payload on both legs.
C23_SignNeedsBothPayloads ==
    \A i \in 1..Len(log) :
        log[i].item.EventType = "Sign"
           => LET b == FromJson(log[i].item.BundleSnapshot)
              IN /\ b.fee_tx.signed_tx \notin {None, ""}
                 /\ b.main_tx.signed_tx \notin {None, ""}

\* C24: in every persisted event whose snapshot has left Initiated, both
\* legs carry their signed payload.
C24_SignedMaterialOnceLeftInitiated ==
    \A i \in 1..Len(log) :
        LET b == FromJson(log[i].item.BundleSnapshot)
        IN b.status # "Initiated"
              => b.fee_tx.signed_tx # None /\ b.main_tx.signed_tx # None

\* C25: in every persisted event a MainConfirmed snapshot has the main leg
\* Confirmed and a Completed snapshot has both legs Confirmed.
C25_ConfirmedStatusMatchesLegs ==
    \A i \in 1..Len(log) :
        LET b == FromJson(log[i].item.BundleSnapshot)
        IN /\ b.status = "MainConfirmed" => b.main_tx.status = "Confirmed"
           /\ b.status = "Completed"
                 => b.main_tx.status = "Confirmed" /\ b.fee_tx.status = "Confirmed"

\* a Completed snapshot has been persisted
C25_Witness ==
    \E i \in 1..Len(log) : log[i].item.BundleStatus = "Completed"

\* C26: for every projected event of a bundle with sender S and recipient R
\* (S # R), query_by_user(S) has a row of that event with direction outgoing
\* and counterparty R, query_by_user(R) has one with direction incoming and
\* counterparty S, and no other user has a row.
C26_EachPartySeesOwnRow ==
    \A i \in 1..Len(log) :
        LET b == FromJson(log[i].item.BundleSnapshot)
            S == b.metadata.sender
            R == b.metadata.recipient
        IN (b.metadata.present /\ S # None /\ R # None /\ S # R)
           => /\ \E r \in query_by_user(historyView, S) :
                    /\ r.bundle_id = b.bundle_id /\ r.timestamp = log[i].item.SK
                    /\ r.direction = "outgoing" /\ r.counterparty = R
              /\ \E r \in query_by_user(historyView, R) :
                    /\ r.bundle_id = b.bundle_id /\ r.timestamp = log[i].item.SK
                    /\ r.direction = "incoming" /\ r.counterparty = S
              /\ \A u \in {User, Recipient, "u3"} \ {S, R} :
                    query_by_user(historyView, u) = {}

\* C27: a persist of an event whose bundle snapshot has no metadata, no
\* sender or no recipient writes no History View row, stores the event and
\* returns Ok.
C27_UnprojectableEventIsSkipped ==
    [][(/\ Len(log') = Len(log) + 1
        /\ LET m == FromJson(log'[Len(log')].item.BundleSnapshot).metadata
           IN ~m.present \/ m.sender = None \/ m.recipient = None)
          => /\ historyView' = historyView
             /\ log'[Len(log')].item \in store' \ store
             /\ result'.err = None /\ result'.appended]_vars

\* a Sign event of a bundle without sender details is stored, the call
\* returned Ok, and the History View has no row
C27_Witness ==
    /\ \E i \in store :
          /\ i.EventType = "Sign"
          /\ FromJson(i.BundleSnapshot).metadata.present
          /\ FromJson(i.BundleSnapshot).metadata.sender = None
    /\ result.op = "on_signed" /\ result.appended /\ result.err = None
    /\ historyView = {}

\* C28: for a key map whose attribute values are all strings, decoding the
\* encoded token succeeds and gives a map equal to the key map, in the
\* Status View manager and in the History View manager.
C28_PageTokenRoundTrip ==
    (tok.pc = "decoded" /\ \A k \in DOMAIN tok.key : tok.key[k].t = "S")
        => tok.decoded.ok /\ tok.decoded.map = tok.key

\* a key of two string attributes, one holding a quote and a backslash, was
\* encoded and decoded by the History View manager
C28_Witness ==
    /\ tok.pc = "decoded" /\ tok.manager = "TransactionHistoryViewManager"
    /\ DOMAIN tok.key = KeyNames
    /\ tok.key[<<80, 75>>] = [t |-> "S", v |-> <<34, 92>>]
    /\ tok.key[<<83, 75>>].t = "S"
    /\ tok.decoded.ok

\* C30: an invocation that received a batch took at most 10 messages and
\* returns only when every spawned task has ended and been joined; it
\* returns Ok(n) exactly when no task failed or panicked, n being the
\* number of tasks that returned Ok, and an error otherwise.
C30_BatchAggregation ==
    (batch.pc = "returned" /\ batch.ret.err # "receive")
        => /\ batch.received <= 10
           /\ batch.running = 0 /\ batch.done = NoTasks
           /\ batch.joined["Ok"] + batch.joined["Err"] + batch.joined["Panic"]
                 = batch.received - batch.skipped
           /\ batch.ret.ok <=> (batch.joined["Err"] = 0 /\ batch.joined["Panic"] = 0)
           /\ batch.ret.ok => batch.ret.count = batch.joined["Ok"]
           /\ ~batch.ret.ok => batch.ret.err = "Broadcast failure detected"

\* a full batch of 10 with one unparseable message, eight tasks that
\* returned Ok and one that panicked, returned the error
C30_Witness ==
    /\ batch.pc = "returned" /\ batch.received = 10 /\ batch.skipped = 1
    /\ batch.joined["Ok"] = 8 /\ batch.joined["Panic"] = 1
    /\ ~batch.ret.ok

\* C29: an event stored by on_broadcast, on_fail or on_error differs from
\* the last event it was built from only in the affected leg (and in the
\* bundle status): the other leg, bundle_id, user_id, metadata and
\* created_at of the snapshot are those of the last event, and what was
\* stored before, the last event included, is still stored unchanged.
C29_LegTransitionFrame ==
    [][\A c \in Callers :
          (/\ result'.caller = c /\ result'.appended
           /\ result'.op \in {"on_broadcast", "on_fail", "on_error"}
           /\ Len(log') = Len(log) + 1)
             => LET old == held[c].bundle_snapshot
                    item == log'[Len(log')].item
                    new == FromJson(item.BundleSnapshot)
                IN /\ item.Leg \in Legs
                   /\ item.Leg = "Main" => new.fee_tx = old.fee_tx
                   /\ item.Leg = "Fee" => new.main_tx = old.main_tx
                   /\ new.bundle_id = old.bundle_id /\ new.user_id = old.user_id
                   /\ new.metadata = old.metadata /\ new.created_at = old.created_at
                   /\ store \subseteq store']_vars

\* an Error event for the fee leg was stored for a bundle whose main leg
\* had been broadcast: the main leg is still Pending with its hash
C29_Witness ==
    /\ result.op = "on_error" /\ result.appended
    /\ \E i \in store :
          /\ i.EventType = "Error" /\ i.Leg = "Fee"
          /\ FromJson(i.BundleSnapshot).main_tx.status = "Pending"
          /\ FromJson(i.BundleSnapshot).fee_tx.status = "Error"

\* C31: a confirmation poll that obtains a receipt of the main leg whose
\* execution status is not success appends no Confirm event: it appends a
\* Fail event for the Main leg and the bundle does not become MainConfirmed.
C31_RevertedMainReceiptFails ==
    [][\A k \in ConfirmationPolls :
          (/\ pst[k].pc = "receipt" /\ pst'[k].pc = "idle"
           /\ pst[k].last.leg = "Main"
           /\ receipts[pst[k].hash] # NoReceipt
           /\ receipts[pst[k].hash] # 1)
             => /\ Len(log') = Len(log) + 1
                /\ log'[Len(log')].item.EventType = "Fail"
                /\ log'[Len(log')].item.Leg = "Main"
                /\ log'[Len(log')].item.BundleStatus # "MainConfirmed"]_vars

\* C32: with no persist in flight and the latest Status View projection
\* done, every Status View row a watcher can get holds the status, hash and
\* block number its leg has in the snapshot of the bundle's latest event.
C32_StatusViewMatchesLatestEvent ==
    log # <<>>
        => \A l \in Legs :
              statusView[l].status # None
                 => statusView[l]
                       = ViewRow(get_latest_event(store, Bundle).event.bundle_snapshot, l)

\* C33: when a poll holds an acceptable receipt for a leg and on_confirmed
\* accepts the transition, the two calls the poll makes (on_confirmed, then
\* persist on the event it returned) end without error and leave exactly
\* one new event in the log.
C33_ConfirmStoredOnceWithoutError ==
    \A k \in ConfirmationPolls \cup FinalizationPolls :
        (/\ pst[k].pc = "receipt" /\ CanAppend
         /\ receipts[pst[k].hash] # NoReceipt
         /\ k \in FinalizationPolls => ReceiptSucceeded(receipts[pst[k].hash])
         /\ pst[k].last.leg = (IF k \in ConfirmationPolls THEN "Main" ELSE "Fee"))
           => LET last == pst[k].last
                  tx == IF k \in ConfirmationPolls THEN last.bundle_snapshot.main_tx
                        ELSE last.bundle_snapshot.fee_tx
              IN \A t \in {Transit(Db, on_confirmed(last, confirmed_tx(tx, 42)),
                                    Origin("on_confirmed", last, pst[k].from_sk,
                                           clockOf[k]))} :
                    t.ok => \A p \in {persist(t.db, t.event,
                                              Origin("persist", t.event, t.sk,
                                                     clockOf[k]))} :
                               /\ p.ok
                               /\ Len(p.db.log) = Len(log) + 1

\* C34: the hash for which a finalization poll requests a receipt is the
\* hash of the bundle's fee transaction, never the main leg's, and a bundle
\* is Completed only if its fee transaction has a receipt.
C34_FinalizationUsesFeeHash ==
    /\ \A f \in FinalizationPolls :
          pst[f].pc = "receipt"
             => /\ HashStr(pst[f].hash) = pst[f].last.bundle_snapshot.fee_tx.transaction_hash
                /\ HashStr(pst[f].hash) # pst[f].last.bundle_snapshot.main_tx.transaction_hash
    /\ \A i \in 1..Len(log) :
          log[i].item.BundleStatus = "Completed"
             => LET fee == FromJson(log[i].item.BundleSnapshot).fee_tx
                IN /\ ParseHash(fee.transaction_hash) # None
                   /\ receipts[ParseHash(fee.transaction_hash)] # NoReceipt

\* C35: in every Broadcast event the hash stored on the broadcast leg is the
\* keccak256 digest of that leg's signed payload (what tx_hash() returns for
\* the leg), and it is the hash a broadcaster task reserved in its process's
\* dedup cache and submitted for that leg.
C35_BroadcastHashIsPayloadHash ==
    \A i \in 1..Len(log) :
        log[i].item.EventType = "Broadcast"
           => LET b == FromJson(log[i].item.BundleSnapshot)
                  tx == IF log[i].item.Leg = "Main" THEN b.main_tx ELSE b.fee_tx
              IN /\ log[i].item.Leg \in {"Main", "Fee"}
                 /\ tx_hash(tx) # None
                 /\ tx.transaction_hash = HashStr(tx_hash(tx))
                 /\ \E x \in sent : /\ x.hash = tx_hash(tx)
                                    /\ x.leg = log[i].item.Leg
                                    /\ Contains(cache[x.proc], x.hash)

C35_Witness ==
    /\ \E i \in 1..Len(log) : /\ log[i].item.EventType = "Broadcast"
                              /\ log[i].item.Leg = "Main"
    /\ \E i \in 1..Len(log) : /\ log[i].item.EventType = "Broadcast"
                              /\ log[i].item.Leg = "Fee"

\* C36: every event produced by initiate, on_signed, on_broadcast, on_fail or
\* on_error is internally consistent: its bundle_status is its snapshot's
\* status, its bundle_id is its snapshot's bundle_id, its user_id is the last
\* event's user_id, and when it names a leg and sets transaction_status, that
\* is the leg's status in the snapshot.  Stated on what each operation
\* returns for the event a caller holds, and on every stored event they produced.
C36_ProducedEventsConsistent ==
    /\ \A r \in {initiate(NewBundle)} :
          r.ok => /\ r.event.bundle_status = r.event.bundle_snapshot.status
                  /\ r.event.bundle_id = r.event.bundle_snapshot.bundle_id
                  /\ r.event.user_id = r.event.bundle_snapshot.user_id
    /\ \A c \in Callers :
          held[c] # NoEvent =>
             \A r \in {on_signed(held[c], FeeSigned, MainSigned)}
                        \cup {on_broadcast(held[c], h) : h \in Hashes}
                        \cup {on_fail(held[c], l) : l \in Legs}
                        \cup {on_error(held[c], l) : l \in Legs} :
                r.ok => LET e == r.event
                            b == e.bundle_snapshot
                        IN /\ e.bundle_status = b.status
                           /\ e.bundle_id = b.bundle_id
                           /\ e.user_id = held[c].user_id
                           /\ (e.leg = "Main" /\ e.transaction_status # None)
                                 => e.transaction_status = b.main_tx.status
                           /\ (e.leg = "Fee" /\ e.transaction_status # None)
                                 => e.transaction_status = b.fee_tx.status
    /\ \A i \in 1..Len(log) :
          log[i].op \in {"initiate", "on_signed", "on_broadcast", "on_fail", "on_error"}
             => LET it == log[i].item
                    b == FromJson(it.BundleSnapshot)
                IN /\ it.BundleStatus = b.status
                   /\ it.PK = b.bundle_id
                   /\ (it.Leg = "Main" /\ it.TransactionStatus # None)
                         => it.TransactionStatus = b.main_tx.status
                   /\ (it.Leg = "Fee" /\ it.TransactionStatus # None)
                         => it.TransactionStatus = b.fee_tx.status

C36_Witness ==
    /\ \E i \in 1..Len(log) : log[i].op = "on_broadcast"
    /\ \E i \in 1..Len(log) : log[i].op = "on_fail"
    /\ \E i \in 1..Len(log) : log[i].op = "on_error"
    /\ held["c1"].event_type = "Error"

\* C37: a broadcaster task appends a Fail event only when the lookup after
\* the failed submission answered that no transaction with the hash exists;
\* after a lookup that itself failed no Fail event is appended.
C37_FailOnlyAfterNotFound ==
    [][\A w \in Workers :
          (/\ wst[w].pc = "fail" /\ wst'[w].pc # "fail"
           /\ Len(log') = Len(log) + 1
           /\ log'[Len(log')].item.EventType = "Fail")
             => wst[w].lookup = "none"]_vars

\* C38: every message in the broadcast queue is eventually deleted by a
\* broadcaster run, whatever the outcome of its processing.
C38_EveryMessageAcknowledged ==
    \A m \in QueueMessages : (m \in queue) ~> (m \notin queue)

\* C39: get_by_bundle_id_for_user(user, bundle) returns the user's history
\* row of the bundle's most recent projected event, and returns None only
\* when the user has no row for the bundle.
C39_PointLookupReturnsLatestRow ==
    \A u \in {User, Recipient} :
        LET rows == {r \in query_by_user(historyView, u) : r.bundle_id = Bundle}
            got == get_by_bundle_id_for_user(historyView, u, Bundle)
        IN /\ got = {} <=> rows = {}
           /\ \A r \in got : \A q \in rows : q.timestamp <= r.timestamp

====
